---------------------------- MODULE Spec2Model ----------------------------
(***************************************************************************)
(* Closure composition engine of appleseed                                 *)
(* (src/appleseed/renderer/kernel/shading/closures.cpp).                   *)
(*                                                                         *)
(* A composite closure is built from an OSL closure tree by                *)
(* process_closure_tree, finalized by compute_cdf and then sampled.       *)
(* Floats are modelled as exact rationals <<numerator, denominator>>.      *)
(***************************************************************************)
EXTENDS Integers, Sequences, FiniteSets, TLC

(***************************************************************************)
(* Bounds of the model.                                                    *)
(***************************************************************************)
\* Largest number of nodes of a closure tree handed to a constructor.
MaxNodes == 5
\* Capacity of a composite (closures.h); scaled down so that trees of
\* MaxNodes nodes reach it.
MaxClosureEntries == 2
\* Largest number of scalars drawn from a sampling context.
MaxDraws == 2
\* The calls of register_closures in a run.
MaxRegistrations == 2

(***************************************************************************)
(* Exact rational arithmetic standing for float arithmetic.                *)
(***************************************************************************)
RECURSIVE GCD(_, _)
GCD(a, b) == IF b = 0 THEN a ELSE GCD(b, a % b)

Abs(x) == IF x < 0 THEN -x ELSE x

\* The rational n/d (d # 0) in lowest terms with a positive denominator.
Rat(n, d) ==
    LET g == GCD(Abs(n), Abs(d))
        s == IF d < 0 THEN -1 ELSE 1
    IN  <<(s * n) \div g, (s * d) \div g>>

RZero == <<0, 1>>
ROne == <<1, 1>>
RAdd(x, y) == Rat(x[1] * y[2] + y[1] * x[2], x[2] * y[2])
RMul(x, y) == Rat(x[1] * y[1], x[2] * y[2])
RDiv(x, y) == Rat(x[1] * y[2], x[2] * y[1])
RSub(x, y) == Rat(x[1] * y[2] - y[1] * x[2], x[2] * y[2])
RLt(x, y) == x[1] * y[2] < y[1] * x[2]
RLe(x, y) == x[1] * y[2] <= y[1] * x[2]
RMax(x, y) == IF RLt(x, y) THEN y ELSE x

(***************************************************************************)
(* Color3f: a triple of floats.                                            *)
(***************************************************************************)
Color(r, g, b) == <<r, g, b>>
Gray(x) == <<x, x, x>>
ColorMul(a, b) == <<RMul(a[1], b[1]), RMul(a[2], b[2]), RMul(a[3], b[3])>>
ColorAdd(a, b) == <<RAdd(a[1], b[1]), RAdd(a[2], b[2]), RAdd(a[3], b[3])>>
ColorDiv(a, x) == <<RDiv(a[1], x), RDiv(a[2], x), RDiv(a[3], x)>>

\* foundation::luminance (Rec. 709 weights, rounded to three digits).
luminance(c) ==
    RAdd(RAdd(RMul(<<213, 1000>>, c[1]), RMul(<<715, 1000>>, c[2])),
         RMul(<<72, 1000>>, c[3]))

\* foundation::max_value: the largest channel.
max_value(c) == RMax(RMax(c[1], c[2]), c[3])


(***************************************************************************)
(* ClosureID (closures.h).  Ids below FirstLayeredClosure are plain        *)
(* closures, ids from FirstLayeredClosure on are layered closures, and     *)
(* NumClosuresIDs is the size of the dispatch table.                       *)
(***************************************************************************)
AshikhminShirleyID == 0
BackgroundID == 1
DebugID == 2
DiffuseID == 3
DisneyID == 4
EmissionID == 5
GlassID == 6
GlassBeckmannID == 7
GlassGGXID == 8
GlossyID == 9
GlossyBeckmannID == 10
GlossyGGXID == 11
HoldoutID == 12
MetalID == 13
MetalBeckmannID == 14
MetalGGXID == 15
OrenNayarID == 16
PhongID == 17
ReflectionID == 18
SheenID == 19
SubsurfaceID == 20
SubsurfaceBetterDipoleID == 21
SubsurfaceDirectionalDipoleID == 22
SubsurfaceNormalizedDiffusionID == 23
SubsurfaceStandardDipoleID == 24
TranslucentID == 25
TransparentID == 26
FirstLayeredClosure == 27
AlSurfaceLayerID == FirstLayeredClosure
NumClosuresIDs == 28

\* An id no closure kind of this build carries (a shader newer than the host).
UnknownID == 9999

(***************************************************************************)
(* Vector3f and Basis3f.                                                   *)
(***************************************************************************)
Vec(x, y, z) == <<x, y, z>>
ZeroVec == Vec(RZero, RZero, RZero)
square_norm(v) == RAdd(RAdd(RMul(v[1], v[1]), RMul(v[2], v[2])), RMul(v[3], v[3]))
VecScale(v, x) == <<RMul(v[1], x), RMul(v[2], x), RMul(v[3], x)>>

\* sqrt of a rational whose numerator and denominator are perfect squares.
ISqrt(n) == CHOOSE r \in 0..n : r * r = n
sqrt(x) == <<ISqrt(x[1]), ISqrt(x[2])>>

\* Basis3f(normal, tangent hint): the frame built from the pair.
Basis3f(n, u) == [n |-> n, u |-> u]
get_tangent_u(basis) == basis.u

\* The geometric shading basis handed to the constructors.
OriginalShadingBasis ==
    Basis3f(Vec(RZero, RZero, ROne), Vec(ROne, RZero, RZero))

(***************************************************************************)
(* OSL closure trees: ClosureMul, ClosureAdd, ClosureComponent, and the    *)
(* null pointer.                                                           *)
(***************************************************************************)
Null == [type |-> "NULL"]
Mul(weight, closure) == [type |-> "MUL", weight |-> weight, closure |-> closure]
Add(closureA, closureB) ==
    [type |-> "ADD", closureA |-> closureA, closureB |-> closureB]
Component(id, w, data) == [type |-> "COMPONENT", id |-> id, w |-> w, data |-> data]

White == Gray(ROne)
Black == Gray(RZero)
HalfWhite == Gray(<<1, 2>>)
Red2 == Color(<<2, 1>>, RZero, RZero)
NegWhite == Gray(<<-1, 1>>)

Nz == Vec(RZero, RZero, <<2, 1>>)
Tx == Vec(<<3, 1>>, RZero, RZero)

DiffuseLeaf(w) == Component(DiffuseID, w, [N |-> Nz])
GlossyLeaf(w, dist, ior) ==
    Component(GlossyID, w, [dist |-> dist, N |-> Nz, T |-> Tx, ior |-> ior])
GlassLeaf(w, dist, ior) ==
    Component(GlassID, w, [dist |-> dist, N |-> Nz, T |-> ZeroVec, ior |-> ior])
MetalLeaf(w, dist) ==
    Component(MetalID, w, [dist |-> dist, N |-> Nz, T |-> ZeroVec])
EmissionLeaf(w) == Component(EmissionID, w, [none |-> 0])
SubsurfaceLeaf(w, profile) ==
    Component(SubsurfaceID, w, [profile |-> profile, N |-> Nz, ior |-> <<13, 10>>])
TransparentLeaf(w) == Component(TransparentID, w, [none |-> 0])
UnknownLeaf(w) == Component(UnknownID, w, [none |-> 0])
LayerLeaf(w, substrate) ==
    Component(AlSurfaceLayerID, w,
              [substrate |-> substrate, N |-> Nz, T |-> Tx, ior |-> <<3, 2>>])

\* The leaves the trees of each composite variant are drawn from.
Leaves(kind) ==
    CASE kind = "surface" ->
             { DiffuseLeaf(White), DiffuseLeaf(Black),
               GlossyLeaf(HalfWhite, "ggx", <<3, 2>>),
               GlassLeaf(White, "ggx", <<3, 2>>),
               GlassLeaf(Red2, "beckmann", <<2, 1>>),
               MetalLeaf(White, "blinn"),
               TransparentLeaf(White),
               UnknownLeaf(White) }
      [] kind = "subsurface" ->
             { SubsurfaceLeaf(White, "standard_dipole"),
               SubsurfaceLeaf(NegWhite, "better_dipole"),
               SubsurfaceLeaf(HalfWhite, "gaussian"),
               DiffuseLeaf(White) }
      [] OTHER ->
             { EmissionLeaf(Red2),
               EmissionLeaf(NegWhite),
               SubsurfaceLeaf(White, "standard_dipole"),
               DiffuseLeaf(White) }

MulWeights == { HalfWhite }
LayerWeights(kind) == IF kind = "surface" THEN { White } ELSE { White, NegWhite }

\* The trees of exactly n nodes over the leaves of a variant.
RECURSIVE TreesOfSize(_, _)
TreesOfSize(kind, n) ==
    IF n < 1 THEN {}
    ELSE IF n = 1 THEN Leaves(kind)
    ELSE   { Mul(c, t) : c \in MulWeights, t \in TreesOfSize(kind, n - 1) }
      \cup { LayerLeaf(c, t) : c \in LayerWeights(kind),
                               t \in TreesOfSize(kind, n - 1) \cup
                                     (IF n = 2 THEN {Null} ELSE {}) }
      \cup UNION { { Add(a, b) : a \in TreesOfSize(kind, i),
                                 b \in TreesOfSize(kind, n - 1 - i) }
                   : i \in 1..(n - 2) }

Trees(kind) == {Null} \cup UNION { TreesOfSize(kind, n) : n \in 1..MaxNodes }

Kinds == { "surface", "subsurface", "emission" }

(***************************************************************************)
(* The composite closure object.                                           *)
(***************************************************************************)
\* enum { InputValuesAlignment } of closures.h.
InputValuesAlignment == 16
\* Pool bytes the composite holds per entry of its capacity.
PoolBytesPerEntry == 88
MaxPoolSize == MaxClosureEntries * PoolBytesPerEntry

Slots == 0..(MaxClosureEntries - 1)

\* sizeof(InputValues) of the record type stored for a closure type.
SizeOfInputValues(closure_type) ==
    CASE closure_type = AlSurfaceLayerID -> 88
      [] closure_type \in {GlassGGXID, GlassBeckmannID} -> 72
      [] closure_type \in {AshikhminShirleyID, DisneyID} -> 48
      [] closure_type \in {SubsurfaceBetterDipoleID, SubsurfaceStandardDipoleID,
                           SubsurfaceDirectionalDipoleID,
                           SubsurfaceNormalizedDiffusionID} -> 44
      [] closure_type \in {MetalGGXID, MetalBeckmannID} -> 36
      [] closure_type \in {GlossyGGXID, GlossyBeckmannID} -> 28
      [] closure_type = OrenNayarID -> 20
      [] OTHER -> 16

\* foundation::align: x rounded up to a multiple of alignment.
align(x, alignment) == ((x + alignment - 1) \div alignment) * alignment

\* What the float arrays of a composite may hold before they are written.
Junk == { ROne, <<1, 3>> }
NoValues == [none |-> 0]
NoBasis == Basis3f(ZeroVec, ZeroVec)

\* CompositeClosure::CompositeClosure() and the m_num_iors(0) of the
\* surface composite: the counts are zeroed, the arrays are left as they are.
NewComposite(junk) ==
    [ m_num_closures  |-> 0,
      m_num_bytes     |-> 0,
      m_pdf_weights   |-> [i \in Slots |-> junk],
      m_cdf           |-> [i \in Slots |-> junk],
      m_weights       |-> [i \in Slots |-> Gray(junk)],
      m_bases         |-> [i \in Slots |-> NoBasis],
      m_closure_types |-> [i \in Slots |-> -1],
      m_input_values  |-> [i \in Slots |-> -1],
      m_values        |-> [i \in Slots |-> NoValues],
      m_num_iors      |-> 0,
      m_iors          |-> [i \in Slots |-> junk],
      m_ior_cdf       |-> [i \in Slots |-> junk] ]

\* The result of a call: the composite after it and how the call ended:
\*   "none"  it returned,
\*   "throw" it threw ExceptionOSLRuntimeError(msg),
\*   "assert" an assertion failed (a build with assertions),
\*   "crash" the process crashed;
\* passed tells that a violated assertion was compiled out and passed (a
\* build without assertions).
Returned(c) == [cc |-> c, exc |-> "none", msg |-> "", passed |-> FALSE]
Passed(c) == [cc |-> c, exc |-> "none", msg |-> "", passed |-> TRUE]
Threw(c, msg) == [cc |-> c, exc |-> "throw", msg |-> msg, passed |-> FALSE]
Aborted(c, msg) == [cc |-> c, exc |-> "assert", msg |-> msg, passed |-> FALSE]
Crashed(c) == [cc |-> c, exc |-> "crash", msg |-> "crash", passed |-> FALSE]

MaxClosuresMsg == "maximum number of closures in OSL shader group exceeded."
PoolAssertMsg == "assert(m_num_bytes + sizeof(InputValues) <= MaxPoolSize)"
WeightAssertMsg == "assert(w > 0.0f)"

\* compute_closure_shading_basis(normal, original_shading_basis)
compute_closure_shading_basis_n(normal, original_shading_basis) ==
    LET normal_square_norm == square_norm(normal)
    IN  IF normal_square_norm # RZero
        THEN Basis3f(VecScale(normal, RDiv(ROne, sqrt(normal_square_norm))),
                     get_tangent_u(original_shading_basis))
        ELSE original_shading_basis

\* compute_closure_shading_basis(normal, tangent, ...) testing the normal
\* only after a tangent it has already accepted.
compute_closure_shading_basis_nt_TangentFirst(normal, tangent, original_shading_basis) ==
    LET tangent_square_norm == square_norm(tangent)
        normal_square_norm == square_norm(normal)
    IN  IF tangent_square_norm # RZero
        THEN Basis3f(IF normal_square_norm # RZero
                     THEN VecScale(normal, RDiv(ROne, sqrt(normal_square_norm)))
                     ELSE original_shading_basis.n,
                     VecScale(tangent, RDiv(ROne, sqrt(tangent_square_norm))))
        ELSE compute_closure_shading_basis_n(normal, original_shading_basis)

\* compute_closure_shading_basis(normal, tangent, original_shading_basis)
compute_closure_shading_basis_nt(normal, tangent, original_shading_basis) ==
    LET tangent_square_norm == square_norm(tangent)
        normal_square_norm == square_norm(normal)
    IN  IF tangent_square_norm # RZero
        THEN IF normal_square_norm # RZero
             THEN Basis3f(VecScale(normal, RDiv(ROne, sqrt(normal_square_norm))),
                          VecScale(tangent, RDiv(ROne, sqrt(tangent_square_norm))))
             ELSE original_shading_basis
        ELSE compute_closure_shading_basis_n(normal, original_shading_basis)

\* HasNoRoom off by one: the test passes a composite that is exactly full.
HasNoRoom_OffByOne(c) == c.m_num_closures > MaxClosureEntries

\* The capacity test of do_add_closure and of the emission add_closure.
HasNoRoom(c) == c.m_num_closures >= MaxClosureEntries

\* The writes of do_add_closure with m_num_bytes advanced by the size of the
\* record as it is.
AppendEntry_NoAlign(c, closure_type, pdf_weight, weight, basis) ==
    LET n == c.m_num_closures
    IN  [c EXCEPT !.m_pdf_weights[n] = pdf_weight,
                  !.m_weights[n] = weight,
                  !.m_bases[n] = basis,
                  !.m_closure_types[n] = closure_type,
                  !.m_input_values[n] = c.m_num_bytes,
                  !.m_values[n] = NoValues,
                  !.m_num_bytes = c.m_num_bytes + SizeOfInputValues(closure_type),
                  !.m_num_closures = n + 1]

\* The writes of do_add_closure / add_closure once the checks are behind:
\* the entry is appended and its record is bump-allocated from the pool.
AppendEntry(c, closure_type, pdf_weight, weight, basis) ==
    LET n == c.m_num_closures
    IN  [c EXCEPT !.m_pdf_weights[n] = pdf_weight,
                  !.m_weights[n] = weight,
                  !.m_bases[n] = basis,
                  !.m_closure_types[n] = closure_type,
                  !.m_input_values[n] = c.m_num_bytes,
                  !.m_values[n] = NoValues,
                  !.m_num_bytes = c.m_num_bytes +
                      align(SizeOfInputValues(closure_type), InputValuesAlignment),
                  !.m_num_closures = n + 1]

\* CompositeClosure::do_add_closure
do_add_closure(c, closure_type, original_shading_basis, weight, normal, has_tangent, tangent) ==
    IF HasNoRoom(c)
    THEN { Threw(c, MaxClosuresMsg) }
    ELSE LET w == luminance(weight)
             basis == IF ~has_tangent
                      THEN compute_closure_shading_basis_n(
                               normal, original_shading_basis)
                      ELSE compute_closure_shading_basis_nt(
                               normal, tangent, original_shading_basis)
             added == AppendEntry(c, closure_type, w, weight, basis)
         IN  IF c.m_num_bytes + SizeOfInputValues(closure_type) > MaxPoolSize
             THEN { Aborted(c, PoolAssertMsg), Passed(added), Crashed(c) }
             ELSE IF ~RLt(RZero, w)
             THEN { Aborted(c, WeightAssertMsg), Passed(added) }
             ELSE { Returned(added) }

\* CompositeEmissionClosure::add_closure
emission_add_closure(c, closure_type, weight, max_weight_component) ==
    IF HasNoRoom(c)
    THEN { Threw(c, MaxClosuresMsg) }
    ELSE LET added == AppendEntry(c, closure_type, max_weight_component, weight,
                                  c.m_bases[c.m_num_closures])
         IN  IF c.m_num_bytes + SizeOfInputValues(closure_type) > MaxPoolSize
             THEN { Aborted(c, PoolAssertMsg), Passed(added), Crashed(c) }
             ELSE { Returned(added) }

\* CompositeSurfaceClosure::add_ior
add_ior(c, weight, ior) ==
    LET w == luminance(weight)
        n == c.m_num_iors
    IN  [c EXCEPT !.m_iors[n] = ior, !.m_ior_cdf[n] = w, !.m_num_iors = n + 1]

\* The statements of a conversion that follow its add_closure call: they run
\* on the record of the entry just added when the call returned.
ThenSet(outcomes, values) ==
    { IF o.exc = "none"
      THEN [o EXCEPT !.cc.m_values[o.cc.m_num_closures - 1] = values]
      ELSE o : o \in outcomes }

(***************************************************************************)
(* The conversions of the closures: each adds the entry of its scattering  *)
(* model to the composite and fills the entry's record.                    *)
(***************************************************************************)
InvalidDistribution(dist) ==
    "invalid microfacet distribution function: " \o dist

AshikhminShirleyClosure_convert_closure(c, shading_basis, p, weight) ==
    ThenSet(do_add_closure(c, AshikhminShirleyID, shading_basis, weight, p.N,
                           TRUE, p.T),
            [m_rd_multiplier |-> ROne, m_rg_multiplier |-> ROne])

\* DiffuseClosure::convert_closure storing the entry under the closure's
\* own id.
DiffuseClosure_convert_closure_KeepsId(c, shading_basis, p, weight) ==
    ThenSet(do_add_closure(c, DiffuseID, shading_basis, weight, p.N,
                           FALSE, ZeroVec),
            [m_reflectance |-> White, m_reflectance_multiplier |-> ROne,
             m_roughness |-> RZero])

DiffuseClosure_convert_closure(c, shading_basis, p, weight) ==
    ThenSet(do_add_closure(c, OrenNayarID, shading_basis, weight, p.N,
                           FALSE, ZeroVec),
            [m_reflectance |-> White, m_reflectance_multiplier |-> ROne,
             m_roughness |-> RZero])

DisneyClosure_convert_closure(c, shading_basis, p, weight) ==
    ThenSet(do_add_closure(c, DisneyID, shading_basis, weight, p.N, TRUE, p.T),
            [m_base_color |-> White])

\* GlassClosure::convert_closure registering the ior before it adds the
\* entry.
GlassClosure_convert_closure_IorFirst(c, shading_basis, p, weight) ==
    IF p.dist \in {"ggx", "beckmann"}
    THEN LET closure_type == IF p.dist = "ggx" THEN GlassGGXID ELSE GlassBeckmannID
             m_ior == RMax(p.ior, <<1, 1000>>)
         IN  ThenSet(do_add_closure(add_ior(c, weight, m_ior), closure_type,
                                    shading_basis, weight, p.N, TRUE, p.T),
                     [m_surface_transmittance_multiplier |-> ROne,
                      m_ior |-> m_ior])
    ELSE { Threw(c, InvalidDistribution(p.dist)) }

GlassClosure_convert_closure(c, shading_basis, p, weight) ==
    IF p.dist \in {"ggx", "beckmann"}
    THEN LET closure_type == IF p.dist = "ggx" THEN GlassGGXID ELSE GlassBeckmannID
             m_ior == RMax(p.ior, <<1, 1000>>)
             added == ThenSet(do_add_closure(c, closure_type, shading_basis,
                                             weight, p.N, TRUE, p.T),
                              [m_surface_transmittance_multiplier |-> ROne,
                               m_ior |-> m_ior])
         IN  { IF o.exc = "none"
               THEN [o EXCEPT !.cc = add_ior(o.cc, weight, m_ior)]
               ELSE o : o \in added }
    ELSE { Threw(c, InvalidDistribution(p.dist)) }

\* GlossyClosure::convert_closure registering its ior as the glass does.
GlossyClosure_convert_closure_AddsIor(c, shading_basis, p, weight) ==
    IF p.dist \in {"ggx", "beckmann"}
    THEN LET closure_type ==
                 IF p.dist = "ggx" THEN GlossyGGXID ELSE GlossyBeckmannID
             m_ior == RMax(p.ior, <<1, 1000>>)
             added == ThenSet(do_add_closure(c, closure_type, shading_basis,
                                             weight, p.N, TRUE, p.T),
                              [m_reflectance |-> White,
                               m_reflectance_multiplier |-> ROne,
                               m_ior |-> m_ior])
         IN  { IF o.exc = "none"
               THEN [o EXCEPT !.cc = add_ior(o.cc, weight, m_ior)]
               ELSE o : o \in added }
    ELSE { Threw(c, InvalidDistribution(p.dist)) }

GlossyClosure_convert_closure(c, shading_basis, p, weight) ==
    IF p.dist \in {"ggx", "beckmann"}
    THEN LET closure_type ==
                 IF p.dist = "ggx" THEN GlossyGGXID ELSE GlossyBeckmannID
         IN  ThenSet(do_add_closure(c, closure_type, shading_basis, weight,
                                    p.N, TRUE, p.T),
                     [m_reflectance |-> White, m_reflectance_multiplier |-> ROne,
                      m_ior |-> RMax(p.ior, <<1, 1000>>)])
    ELSE { Threw(c, InvalidDistribution(p.dist)) }

\* MetalClosure::convert_closure adding the entry before it tests the
\* distribution.
MetalClosure_convert_closure_AddsFirst(c, shading_basis, p, weight) ==
    LET closure_type == IF p.dist = "ggx" THEN MetalGGXID ELSE MetalBeckmannID
        added == ThenSet(do_add_closure(c, closure_type, shading_basis, weight,
                                        p.N, TRUE, p.T),
                         [m_reflectance_multiplier |-> ROne])
    IN  IF p.dist \in {"ggx", "beckmann"}
        THEN added
        ELSE { IF o.exc = "none" THEN Threw(o.cc, InvalidDistribution(p.dist))
               ELSE o : o \in added }

MetalClosure_convert_closure(c, shading_basis, p, weight) ==
    IF p.dist \in {"ggx", "beckmann"}
    THEN LET closure_type == IF p.dist = "ggx" THEN MetalGGXID ELSE MetalBeckmannID
         IN  ThenSet(do_add_closure(c, closure_type, shading_basis, weight,
                                    p.N, TRUE, p.T),
                     [m_reflectance_multiplier |-> ROne])
    ELSE { Threw(c, InvalidDistribution(p.dist)) }

OrenNayarClosure_convert_closure(c, shading_basis, p, weight) ==
    ThenSet(do_add_closure(c, OrenNayarID, shading_basis, weight, p.N,
                           FALSE, ZeroVec),
            [m_reflectance |-> White, m_reflectance_multiplier |-> ROne,
             m_roughness |-> RMax(p.roughness, RZero)])

PhongClosure_convert_closure(c, shading_basis, p, weight) ==
    ThenSet(do_add_closure(c, AshikhminShirleyID, shading_basis, weight, p.N,
                           FALSE, ZeroVec),
            [m_rd_multiplier |-> ROne, m_rg_multiplier |-> ROne])

ReflectionClosure_convert_closure(c, shading_basis, p, weight) ==
    ThenSet(do_add_closure(c, GlossyBeckmannID, shading_basis, weight, p.N,
                           FALSE, ZeroVec),
            [m_reflectance |-> White, m_reflectance_multiplier |-> ROne,
             m_ior |-> RMax(p.ior, <<1, 1000>>)])

SheenClosure_convert_closure(c, shading_basis, p, weight) ==
    ThenSet(do_add_closure(c, SheenID, shading_basis, weight, p.N,
                           FALSE, ZeroVec),
            [m_reflectance |-> White, m_reflectance_multiplier |-> ROne])

TranslucentClosure_convert_closure(c, shading_basis, p, weight) ==
    ThenSet(do_add_closure(c, TranslucentID, shading_basis, weight, p.N,
                           FALSE, ZeroVec),
            [m_transmittance |-> White, m_transmittance_multiplier |-> ROne])

\* AlSurfaceLayerClosure::convert_closure storing the entry as a glossy BRDF.
AlSurfaceLayerClosure_convert_closure_AsGlossy(c, shading_basis, p, weight) ==
    ThenSet(do_add_closure(c, GlossyGGXID, shading_basis, weight, p.N,
                           TRUE, p.T),
            [m_substrate |-> p.substrate, m_substrate_closure_data |-> 0,
             m_osl_bsdf |-> 0, m_ior |-> p.ior])

AlSurfaceLayerClosure_convert_closure(c, shading_basis, p, weight) ==
    ThenSet(do_add_closure(c, AlSurfaceLayerID, shading_basis, weight, p.N,
                           TRUE, p.T),
            [m_substrate |-> p.substrate, m_substrate_closure_data |-> 0,
             m_osl_bsdf |-> 0, m_ior |-> p.ior])

\* EmissionClosure::convert_closure storing the weight as the radiance,
\* with a multiplier of one.
EmissionClosure_convert_closure_RawRadiance(c, p, weight, max_weight_component) ==
    ThenSet(emission_add_closure(c, EmissionID, weight, max_weight_component),
            [m_radiance |-> weight, m_radiance_multiplier |-> ROne])

\* EmissionClosure::convert_closure
EmissionClosure_convert_closure(c, p, weight, max_weight_component) ==
    ThenSet(emission_add_closure(c, EmissionID, weight, max_weight_component),
            [m_radiance |-> ColorDiv(weight, max_weight_component),
             m_radiance_multiplier |-> max_weight_component])

\* SubsurfaceClosure::convert_closure, in a build without
\* APPLESEED_WITH_NORMALIZED_DIFFUSION_BSSRDF.
SubsurfaceClosure_convert_closure(c, shading_basis, p, weight) ==
    LET dipole(closure_type) ==
            ThenSet(do_add_closure(c, closure_type, shading_basis, weight, p.N,
                                   FALSE, ZeroVec),
                    [m_weight |-> ROne, m_reflectance_multiplier |-> ROne,
                     m_mfp_multiplier |-> ROne, m_g |-> RZero, m_ior |-> p.ior])
    IN  CASE p.profile = "normalized_diffusion" ->
                 { Threw(c, "unknown subsurface profile: normalized_diffusion") }
          [] p.profile = "better_dipole" -> dipole(SubsurfaceBetterDipoleID)
          [] p.profile = "standard_dipole" -> dipole(SubsurfaceStandardDipoleID)
          [] p.profile = "directional_dipole" ->
                 dipole(SubsurfaceDirectionalDipoleID)
          [] OTHER -> { Threw(c, "unknown subsurface profile: " \o p.profile) }

\* convert_closure_nop
convert_closure_nop(c, shading_basis, p, weight) == { Returned(c) }

(***************************************************************************)
(* The dispatch table g_closure_convert_funs, a slot per closure id.  A    *)
(* slot holds the name of a conversion, "nop", or "null" (the zero of a    *)
(* static array that was never written).                                   *)
(***************************************************************************)
TableSlots == 0..(NumClosuresIDs - 1)

\* The slots the register_closure of each closure kind writes.
RegisteredConversions ==
    (AlSurfaceLayerID :> "AlSurfaceLayerClosure") @@
    (AshikhminShirleyID :> "AshikhminShirleyClosure") @@
    (DiffuseID :> "DiffuseClosure") @@
    (DisneyID :> "DisneyClosure") @@
    (GlassID :> "GlassClosure") @@
    (GlossyID :> "GlossyClosure") @@
    (MetalID :> "MetalClosure") @@
    (OrenNayarID :> "OrenNayarClosure") @@
    (PhongID :> "PhongClosure") @@
    (ReflectionID :> "ReflectionClosure") @@
    (SheenID :> "SheenClosure") @@
    (TranslucentID :> "TranslucentClosure")

\* The table register_closures leaves behind: every slot the no-op, then
\* the conversions of the registered kinds.
register_closures_table ==
    [i \in TableSlots |->
        IF i \in DOMAIN RegisteredConversions
        THEN RegisteredConversions[i] ELSE "nop"]

\* The call (*fun)(composite_closure, shading_basis, osl_params, weight).
CallConversion(fun, c, shading_basis, p, weight) ==
    CASE fun = "AlSurfaceLayerClosure" ->
             AlSurfaceLayerClosure_convert_closure(c, shading_basis, p, weight)
      [] fun = "AshikhminShirleyClosure" ->
             AshikhminShirleyClosure_convert_closure(c, shading_basis, p, weight)
      [] fun = "DiffuseClosure" ->
             DiffuseClosure_convert_closure(c, shading_basis, p, weight)
      [] fun = "DisneyClosure" ->
             DisneyClosure_convert_closure(c, shading_basis, p, weight)
      [] fun = "GlassClosure" ->
             GlassClosure_convert_closure(c, shading_basis, p, weight)
      [] fun = "GlossyClosure" ->
             GlossyClosure_convert_closure(c, shading_basis, p, weight)
      [] fun = "MetalClosure" ->
             MetalClosure_convert_closure(c, shading_basis, p, weight)
      [] fun = "OrenNayarClosure" ->
             OrenNayarClosure_convert_closure(c, shading_basis, p, weight)
      [] fun = "PhongClosure" ->
             PhongClosure_convert_closure(c, shading_basis, p, weight)
      [] fun = "ReflectionClosure" ->
             ReflectionClosure_convert_closure(c, shading_basis, p, weight)
      [] fun = "SheenClosure" ->
             SheenClosure_convert_closure(c, shading_basis, p, weight)
      [] fun = "TranslucentClosure" ->
             TranslucentClosure_convert_closure(c, shading_basis, p, weight)
      [] fun = "nop" -> convert_closure_nop(c, shading_basis, p, weight)
      [] OTHER -> { Crashed(c) }

\* A call through a slot read past the end of the table: the pointer called
\* is whatever lies there.  The call crashes, or lands on the no-op or on a
\* conversion, which then reads the parameters as its own.
IndeterminateCall(c, shading_basis, weight) ==
    { Crashed(c) }
      \cup convert_closure_nop(c, shading_basis, NoValues, weight)
      \cup DiffuseClosure_convert_closure(c, shading_basis, [N |-> ZeroVec], weight)

\* g_closure_convert_funs[c->id](*this, original_shading_basis, c->data(), w)
Dispatch(table, id, c, shading_basis, p, weight) ==
    IF id \in TableSlots
    THEN CallConversion(table[id], c, shading_basis, p, weight)
    ELSE IndeterminateCall(c, shading_basis, weight)

\* get_nested_closure_color: the substrate pointer at the head of the
\* parameters of a layered closure.  Parameters of another layout give a
\* pointer that is null or wild.
Wild == [type |-> "WILD"]
get_nested_closure_color(closure_id, params) ==
    IF "substrate" \in DOMAIN params THEN { params.substrate } ELSE { Null, Wild }

(***************************************************************************)
(* process_closure_tree.  A call is a frame <<closure, weight>>; the       *)
(* recursive calls a frame makes are the frames it pushes, first call on   *)
(* top.  A frame yields [push, outcomes].                                  *)
(***************************************************************************)
Frame(closure, weight) == [closure |-> closure, weight |-> weight]
Step(push, outcomes) == [push |-> push, outcomes |-> outcomes]

\* HasPositiveLuminance letting a weight of zero luminance through.
HasPositiveLuminance_AcceptsZero(w) == RLe(RZero, luminance(w))

\* The test of the surface and subsurface walkers on a leaf's weight.
HasPositiveLuminance(w) == RLt(RZero, luminance(w))

\* The emission walker taking a leaf whatever its weight.
HasPositiveMaxComponent_AcceptsAll(w) == TRUE

\* The test of the emission walker on a leaf's weight.
HasPositiveMaxComponent(w) == RLt(RZero, max_value(w))

\* The surface walker with a MUL node that hands its child the running
\* weight as it received it.
SurfaceProcessClosureTree_MulKeepsWeight(table, c, f) ==
    LET closure == f.closure
        weight == f.weight
    IN  CASE closure.type = "NULL" -> Step(<<>>, { Returned(c) })
          [] closure.type = "WILD" -> Step(<<>>, { Crashed(c) })
          [] closure.type = "MUL" ->
                 Step(<<Frame(closure.closure, weight)>>, { Returned(c) })
          [] closure.type = "ADD" ->
                 Step(<<Frame(closure.closureA, weight),
                        Frame(closure.closureB, weight)>>,
                      { Returned(c) })
          [] OTHER ->
                 LET w == ColorMul(weight, closure.w)
                 IN  IF HasPositiveLuminance(w)
                     THEN Step(<<>>, Dispatch(table, closure.id, c,
                                              OriginalShadingBasis, closure.data, w))
                     ELSE Step(<<>>, { Returned(c) })

\* CompositeSurfaceClosure::process_closure_tree
SurfaceProcessClosureTree(table, c, f) ==
    LET closure == f.closure
        weight == f.weight
    IN  CASE closure.type = "NULL" -> Step(<<>>, { Returned(c) })
          [] closure.type = "WILD" -> Step(<<>>, { Crashed(c) })
          [] closure.type = "MUL" ->
                 Step(<<Frame(closure.closure, ColorMul(weight, closure.weight))>>,
                      { Returned(c) })
          [] closure.type = "ADD" ->
                 Step(<<Frame(closure.closureA, weight),
                        Frame(closure.closureB, weight)>>,
                      { Returned(c) })
          [] OTHER ->
                 LET w == ColorMul(weight, closure.w)
                 IN  IF HasPositiveLuminance(w)
                     THEN Step(<<>>, Dispatch(table, closure.id, c,
                                              OriginalShadingBasis, closure.data, w))
                     ELSE Step(<<>>, { Returned(c) })

\* The subsurface walker entering a substrate with the running weight, the
\* weight of the layered leaf left out.
SubsurfaceProcessClosureTree_LayerKeepsWeight(c, f) ==
    LET closure == f.closure
        weight == f.weight
    IN  CASE closure.type = "NULL" -> { Step(<<>>, { Returned(c) }) }
          [] closure.type = "WILD" -> { Step(<<>>, { Crashed(c) }) }
          [] closure.type = "MUL" ->
                 { Step(<<Frame(closure.closure, ColorMul(weight, closure.weight))>>,
                        { Returned(c) }) }
          [] closure.type = "ADD" ->
                 { Step(<<Frame(closure.closureA, weight),
                          Frame(closure.closureB, weight)>>,
                        { Returned(c) }) }
          [] OTHER ->
                 IF closure.id = SubsurfaceID
                 THEN LET w == ColorMul(weight, closure.w)
                      IN  IF HasPositiveLuminance(w)
                          THEN { Step(<<>>, SubsurfaceClosure_convert_closure(
                                                c, OriginalShadingBasis,
                                                closure.data, w)) }
                          ELSE { Step(<<>>, { Returned(c) }) }
                 ELSE IF closure.id >= FirstLayeredClosure
                 THEN { Step(<<Frame(nested, weight)>>, { Returned(c) })
                        : nested \in get_nested_closure_color(closure.id,
                                                              closure.data) }
                 ELSE { Step(<<>>, { Returned(c) }) }

\* The subsurface walker visiting the right subtree of an ADD node first.
SubsurfaceProcessClosureTree_RightFirst(c, f) ==
    LET closure == f.closure
        weight == f.weight
    IN  CASE closure.type = "NULL" -> { Step(<<>>, { Returned(c) }) }
          [] closure.type = "WILD" -> { Step(<<>>, { Crashed(c) }) }
          [] closure.type = "MUL" ->
                 { Step(<<Frame(closure.closure, ColorMul(weight, closure.weight))>>,
                        { Returned(c) }) }
          [] closure.type = "ADD" ->
                 { Step(<<Frame(closure.closureB, weight),
                          Frame(closure.closureA, weight)>>,
                        { Returned(c) }) }
          [] OTHER ->
                 IF closure.id = SubsurfaceID
                 THEN LET w == ColorMul(weight, closure.w)
                      IN  IF HasPositiveLuminance(w)
                          THEN { Step(<<>>, SubsurfaceClosure_convert_closure(
                                                c, OriginalShadingBasis,
                                                closure.data, w)) }
                          ELSE { Step(<<>>, { Returned(c) }) }
                 ELSE IF closure.id >= FirstLayeredClosure
                 THEN { Step(<<Frame(nested, ColorMul(weight, closure.w))>>,
                             { Returned(c) })
                        : nested \in get_nested_closure_color(closure.id,
                                                              closure.data) }
                 ELSE { Step(<<>>, { Returned(c) }) }

\* CompositeSubsurfaceClosure::process_closure_tree
SubsurfaceProcessClosureTree(c, f) ==
    LET closure == f.closure
        weight == f.weight
    IN  CASE closure.type = "NULL" -> { Step(<<>>, { Returned(c) }) }
          [] closure.type = "WILD" -> { Step(<<>>, { Crashed(c) }) }
          [] closure.type = "MUL" ->
                 { Step(<<Frame(closure.closure, ColorMul(weight, closure.weight))>>,
                        { Returned(c) }) }
          [] closure.type = "ADD" ->
                 { Step(<<Frame(closure.closureA, weight),
                          Frame(closure.closureB, weight)>>,
                        { Returned(c) }) }
          [] OTHER ->
                 IF closure.id = SubsurfaceID
                 THEN LET w == ColorMul(weight, closure.w)
                      IN  IF HasPositiveLuminance(w)
                          THEN { Step(<<>>, SubsurfaceClosure_convert_closure(
                                                c, OriginalShadingBasis,
                                                closure.data, w)) }
                          ELSE { Step(<<>>, { Returned(c) }) }
                 ELSE IF closure.id >= FirstLayeredClosure
                 THEN { Step(<<Frame(nested, ColorMul(weight, closure.w))>>,
                             { Returned(c) })
                        : nested \in get_nested_closure_color(closure.id,
                                                              closure.data) }
                 ELSE { Step(<<>>, { Returned(c) }) }

\* The emission walker entering the substrate of a layered leaf whatever
\* the leaf's weight, as the subsurface walker does.
EmissionProcessClosureTree_UnwrapsAlways(c, f) ==
    LET closure == f.closure
        weight == f.weight
    IN  CASE closure.type = "NULL" -> { Step(<<>>, { Returned(c) }) }
          [] closure.type = "WILD" -> { Step(<<>>, { Crashed(c) }) }
          [] closure.type = "MUL" ->
                 { Step(<<Frame(closure.closure, ColorMul(weight, closure.weight))>>,
                        { Returned(c) }) }
          [] closure.type = "ADD" ->
                 { Step(<<Frame(closure.closureA, weight),
                          Frame(closure.closureB, weight)>>,
                        { Returned(c) }) }
          [] OTHER ->
                 LET w == ColorMul(weight, closure.w)
                     max_weight_component == max_value(w)
                 IN  IF closure.id >= FirstLayeredClosure
                     THEN { Step(<<Frame(nested, w)>>, { Returned(c) })
                            : nested \in get_nested_closure_color(
                                             closure.id, closure.data) }
                     ELSE IF HasPositiveMaxComponent(w) /\ closure.id = EmissionID
                     THEN { Step(<<>>, EmissionClosure_convert_closure(
                                           c, closure.data, w,
                                           max_weight_component)) }
                     ELSE { Step(<<>>, { Returned(c) }) }

\* CompositeEmissionClosure::process_closure_tree
EmissionProcessClosureTree(c, f) ==
    LET closure == f.closure
        weight == f.weight
    IN  CASE closure.type = "NULL" -> { Step(<<>>, { Returned(c) }) }
          [] closure.type = "WILD" -> { Step(<<>>, { Crashed(c) }) }
          [] closure.type = "MUL" ->
                 { Step(<<Frame(closure.closure, ColorMul(weight, closure.weight))>>,
                        { Returned(c) }) }
          [] closure.type = "ADD" ->
                 { Step(<<Frame(closure.closureA, weight),
                          Frame(closure.closureB, weight)>>,
                        { Returned(c) }) }
          [] OTHER ->
                 LET w == ColorMul(weight, closure.w)
                     max_weight_component == max_value(w)
                 IN  IF HasPositiveMaxComponent(w)
                     THEN IF closure.id = EmissionID
                          THEN { Step(<<>>, EmissionClosure_convert_closure(
                                                c, closure.data, w,
                                                max_weight_component)) }
                          ELSE IF closure.id >= FirstLayeredClosure
                          THEN { Step(<<Frame(nested, w)>>, { Returned(c) })
                                 : nested \in get_nested_closure_color(
                                                  closure.id, closure.data) }
                          ELSE { Step(<<>>, { Returned(c) }) }
                     ELSE { Step(<<>>, { Returned(c) }) }

\* The walker of a composite variant on one frame: the ways the call can go.
ProcessFrame(kind, table, c, f) ==
    CASE kind = "surface" -> { SurfaceProcessClosureTree(table, c, f) }
      [] kind = "subsurface" -> SubsurfaceProcessClosureTree(c, f)
      [] OTHER -> EmissionProcessClosureTree(c, f)

(***************************************************************************)
(* CDF construction and sampling.                                          *)
(***************************************************************************)
\* m_pdf_weights[0] + ... + m_pdf_weights[i], summed as the loop sums it.
RECURSIVE RunningTotal(_, _)
RunningTotal(weights, i) ==
    IF i = 0 THEN RAdd(RZero, weights[0])
    ELSE RAdd(RunningTotal(weights, i - 1), weights[i])

\* compute_cdf without its single-entry case.
compute_cdf_SkipSingleEntry(c) ==
    LET closure_count == c.m_num_closures
    IN  IF closure_count > 1
        THEN LET total_weight == RunningTotal(c.m_pdf_weights, closure_count - 1)
                 rcp_total_weight == RDiv(ROne, total_weight)
             IN  [c EXCEPT
                    !.m_pdf_weights =
                        [i \in Slots |->
                            IF i < closure_count
                            THEN RMul(c.m_pdf_weights[i], rcp_total_weight)
                            ELSE c.m_pdf_weights[i]],
                    !.m_cdf =
                        [i \in Slots |->
                            IF i < closure_count - 1
                            THEN RMul(RunningTotal(c.m_pdf_weights, i),
                                      rcp_total_weight)
                            ELSE IF i = closure_count - 1 THEN ROne
                            ELSE c.m_cdf[i]]]
        ELSE c

\* compute_cdf normalizing the pdf weights as it does the cdf, all but the
\* last one.
compute_cdf_LastPdfWeightRaw(c) ==
    LET closure_count == c.m_num_closures
    IN  IF closure_count = 1
        THEN [c EXCEPT !.m_pdf_weights[0] = ROne, !.m_cdf[0] = ROne]
        ELSE IF closure_count > 1
        THEN LET total_weight == RunningTotal(c.m_pdf_weights, closure_count - 1)
                 rcp_total_weight == RDiv(ROne, total_weight)
             IN  [c EXCEPT
                    !.m_pdf_weights =
                        [i \in Slots |->
                            IF i < closure_count - 1
                            THEN RMul(c.m_pdf_weights[i], rcp_total_weight)
                            ELSE c.m_pdf_weights[i]],
                    !.m_cdf =
                        [i \in Slots |->
                            IF i < closure_count - 1
                            THEN RMul(RunningTotal(c.m_pdf_weights, i),
                                      rcp_total_weight)
                            ELSE IF i = closure_count - 1 THEN ROne
                            ELSE c.m_cdf[i]]]
        ELSE c

\* compute_cdf leaving the running totals in m_cdf as they were summed.
compute_cdf_CdfNotScaled(c) ==
    LET closure_count == c.m_num_closures
    IN  IF closure_count = 1
        THEN [c EXCEPT !.m_pdf_weights[0] = ROne, !.m_cdf[0] = ROne]
        ELSE IF closure_count > 1
        THEN LET total_weight == RunningTotal(c.m_pdf_weights, closure_count - 1)
                 rcp_total_weight == RDiv(ROne, total_weight)
             IN  [c EXCEPT
                    !.m_pdf_weights =
                        [i \in Slots |->
                            IF i < closure_count
                            THEN RMul(c.m_pdf_weights[i], rcp_total_weight)
                            ELSE c.m_pdf_weights[i]],
                    !.m_cdf =
                        [i \in Slots |->
                            IF i < closure_count - 1
                            THEN RunningTotal(c.m_pdf_weights, i)
                            ELSE IF i = closure_count - 1 THEN ROne
                            ELSE c.m_cdf[i]]]
        ELSE c

\* CompositeClosure::compute_cdf
compute_cdf(c) ==
    LET closure_count == c.m_num_closures
    IN  IF closure_count = 1
        THEN [c EXCEPT !.m_pdf_weights[0] = ROne, !.m_cdf[0] = ROne]
        ELSE IF closure_count > 1
        THEN LET total_weight == RunningTotal(c.m_pdf_weights, closure_count - 1)
                 rcp_total_weight == RDiv(ROne, total_weight)
             IN  [c EXCEPT
                    !.m_pdf_weights =
                        [i \in Slots |->
                            IF i < closure_count
                            THEN RMul(c.m_pdf_weights[i], rcp_total_weight)
                            ELSE c.m_pdf_weights[i]],
                    !.m_cdf =
                        [i \in Slots |->
                            IF i < closure_count - 1
                            THEN RMul(RunningTotal(c.m_pdf_weights, i),
                                      rcp_total_weight)
                            ELSE IF i = closure_count - 1 THEN ROne
                            ELSE c.m_cdf[i]]]
        ELSE c

\* The constructor's tail without the default IOR.
SurfaceFinish_NoDefaultIor(c0) ==
    LET c == compute_cdf(c0)
    IN  IF c.m_num_iors > 1
        THEN LET total_weight == RunningTotal(c.m_ior_cdf, c.m_num_iors - 1)
                 rcp_total_weight == RDiv(ROne, total_weight)
             IN  [c EXCEPT
                    !.m_ior_cdf =
                        [i \in Slots |->
                            IF i < c.m_num_iors - 1
                            THEN RMul(RunningTotal(c.m_ior_cdf, i),
                                      rcp_total_weight)
                            ELSE IF i = c.m_num_iors - 1 THEN ROne
                            ELSE c.m_ior_cdf[i]]]
        ELSE c

\* The constructor's tail leaving the IOR weights as add_ior stored them.
SurfaceFinish_IorWeightsRaw(c0) ==
    LET c == compute_cdf(c0)
    IN  IF c.m_num_iors = 0
        THEN [c EXCEPT !.m_num_iors = 1, !.m_iors[0] = ROne]
        ELSE c

\* The tail of CompositeSurfaceClosure::CompositeSurfaceClosure after the
\* walk: compute_cdf, then the IOR list.
SurfaceFinish(c0) ==
    LET c == compute_cdf(c0)
    IN  IF c.m_num_iors = 0
        THEN [c EXCEPT !.m_num_iors = 1, !.m_iors[0] = ROne]
        ELSE IF c.m_num_iors > 1
        THEN LET total_weight == RunningTotal(c.m_ior_cdf, c.m_num_iors - 1)
                 rcp_total_weight == RDiv(ROne, total_weight)
             IN  [c EXCEPT
                    !.m_ior_cdf =
                        [i \in Slots |->
                            IF i < c.m_num_iors - 1
                            THEN RMul(RunningTotal(c.m_ior_cdf, i),
                                      rcp_total_weight)
                            ELSE IF i = c.m_num_iors - 1 THEN ROne
                            ELSE c.m_ior_cdf[i]]]
        ELSE c

\* foundation::sample_cdf_linear_search: the first index whose cdf value is
\* not below x; a search that finds none leaves the array.
RECURSIVE LinearSearch(_, _, _)
LinearSearch(cdf, x, i) ==
    IF i \notin DOMAIN cdf THEN i
    ELSE IF RLt(cdf[i], x) THEN LinearSearch(cdf, x, i + 1)
    ELSE i

sample_cdf_linear_search(cdf, x) == LinearSearch(cdf, x, 0)

\* choose_closure searching the pdf weights in place of the cdf.
choose_closure_SearchesPdfWeights(c, w) ==
    sample_cdf_linear_search(c.m_pdf_weights, w)

\* CompositeClosure::choose_closure(const float w)
choose_closure(c, w) == sample_cdf_linear_search(c.m_cdf, w)

\* CompositeSurfaceClosure::choose_ior: the index of the IOR it returns.
choose_ior_index(c, w) ==
    IF c.m_num_iors = 1 THEN 0 ELSE sample_cdf_linear_search(c.m_ior_cdf, w)

choose_ior(c, w) == c.m_iors[choose_ior_index(c, w)]

(***************************************************************************)
(* The state machine.                                                      *)
(***************************************************************************)
VARIABLES
    g_closure_convert_funs, \* the dispatch table
    phase,  \* "idle", "walk" (in a constructor's process_closure_tree),
            \* "ready" (constructed), "failed" (the constructor threw),
            \* "aborted" (assertion failure or crash)
    kind,   \* the composite variant under construction
    ci,     \* the closure tree handed to the constructor
    stack,  \* the pending process_closure_tree calls, next call first
    cc,     \* the composite closure
    error,  \* the message of the exception thrown, "" when none
    build,  \* "release" once a violated assertion was passed, else "any"
    ret,    \* the last sampling call and what it returned
    sampling_context, \* the scalars drawn so far from the caller's
                      \* SamplingContext
    registration,     \* where a register_closures that runs beside a walk
                      \* stands: "idle", "clear" or "install", and the index
                      \* of its next write
    worker  \* the composite a second thread constructs: its phase, kind,
            \* ci, stack, cc and error

vars ==
    <<g_closure_convert_funs, phase, kind, ci, stack, cc, error, build, ret,
      sampling_context, registration, worker>>

\* register_closures is not running and was never called.
NotRegistering == [pc |-> "idle", i |-> 0, calls |-> 0]
NoWorker ==
    [phase |-> "none", kind |-> "none", ci |-> Null, stack |-> <<>>,
     cc |-> [none |-> 0], error |-> ""]

\* The values drawn for the sampling calls, all in [0, 1).
USamples == { RZero, <<1, 2>>, <<999, 1000>> }

NoCall == [op |-> "none", w |-> RZero, index |-> 0, ior |-> RZero]

Init ==
    /\ g_closure_convert_funs = [i \in TableSlots |-> "null"]
    /\ phase = "idle"
    /\ kind = "none"
    /\ ci = Null
    /\ stack = <<>>
    /\ cc \in { NewComposite(junk) : junk \in Junk }
    /\ error = ""
    /\ build = "any"
    /\ ret = NoCall
    /\ sampling_context = 0
    /\ registration = NotRegistering
    /\ worker = NoWorker

\* register_closures
RegisterClosures ==
    /\ phase = "idle"
    /\ g_closure_convert_funs # register_closures_table
    /\ g_closure_convert_funs' = register_closures_table
    /\ UNCHANGED <<phase, kind, ci, stack, cc, error, build, ret,
                 sampling_context, registration, worker>>

\* Entry of a composite's constructor: the counts are zero and the walk of
\* the tree starts with the weight Color3f(1.0f).
Construct ==
    /\ phase = "idle"
    /\ g_closure_convert_funs = register_closures_table
    /\ \E k \in Kinds : \E t \in Trees(k) :
          /\ kind' = k
          /\ ci' = t
          /\ stack' = <<Frame(t, White)>>
    /\ phase' = "walk"
    /\ UNCHANGED <<g_closure_convert_funs, cc, error, build, ret,
                 sampling_context, registration, worker>>

\* One call of process_closure_tree.  An exception unwinds every pending
\* call and leaves the constructor.
ProcessClosureTree ==
    /\ phase = "walk"
    /\ stack # <<>>
    /\ \E st \in ProcessFrame(kind, g_closure_convert_funs, cc, Head(stack)) :
       \E o \in st.outcomes :
          /\ o.exc = "assert" => build = "any"
          /\ o.passed => build' = "release"
          /\ ~o.passed => build' = build
          /\ cc' = o.cc
          /\ IF o.exc = "none"
             THEN /\ phase' = "walk"
                  /\ stack' = st.push \o Tail(stack)
                  /\ error' = error
             ELSE /\ phase' = IF o.exc = "throw" THEN "failed" ELSE "aborted"
                  /\ stack' = <<>>
                  /\ error' = o.msg
    /\ UNCHANGED <<g_closure_convert_funs, kind, ci, ret,
                 sampling_context, registration, worker>>

\* The rest of CompositeSurfaceClosure's constructor once the walk returned.
SurfaceConstructed ==
    /\ phase = "walk"
    /\ stack = <<>>
    /\ kind = "surface"
    /\ cc' = SurfaceFinish(cc)
    /\ phase' = "ready"
    /\ UNCHANGED <<g_closure_convert_funs, kind, ci, stack, error, build, ret,
                 sampling_context, registration, worker>>

\* The rest of CompositeSubsurfaceClosure's constructor.
SubsurfaceConstructed ==
    /\ phase = "walk"
    /\ stack = <<>>
    /\ kind = "subsurface"
    /\ cc' = compute_cdf(cc)
    /\ phase' = "ready"
    /\ UNCHANGED <<g_closure_convert_funs, kind, ci, stack, error, build, ret,
                 sampling_context, registration, worker>>

\* The rest of CompositeEmissionClosure's constructor.
EmissionConstructed ==
    /\ phase = "walk"
    /\ stack = <<>>
    /\ kind = "emission"
    /\ cc' = compute_cdf(cc)
    /\ phase' = "ready"
    /\ UNCHANGED <<g_closure_convert_funs, kind, ci, stack, error, build, ret,
                 sampling_context, registration, worker>>

\* choose_closure(w) on a constructed composite that holds an entry.
ChooseClosure ==
    /\ phase = "ready"
    /\ cc.m_num_closures > 0
    /\ \E w \in USamples :
          ret' = [op |-> "choose_closure", w |-> w,
                  index |-> choose_closure(cc, w), ior |-> RZero]
    /\ UNCHANGED <<g_closure_convert_funs, phase, kind, ci, stack, cc, error, build,
                 sampling_context, registration, worker>>

\* choose_ior(w) on a constructed surface composite.
ChooseIor ==
    /\ phase = "ready"
    /\ kind = "surface"
    /\ \E w \in USamples :
          ret' = [op |-> "choose_ior", w |-> w,
                  index |-> choose_ior_index(cc, w), ior |-> choose_ior(cc, w)]
    /\ UNCHANGED <<g_closure_convert_funs, phase, kind, ci, stack, cc, error, build,
                 sampling_context, registration, worker>>

Next ==
    \/ RegisterClosures
    \/ Construct
    \/ ProcessClosureTree
    \/ SurfaceConstructed
    \/ SubsurfaceConstructed
    \/ EmissionConstructed
    \/ ChooseClosure
    \/ ChooseIor

Spec == Init /\ [][Next]_vars

(***************************************************************************)
(* Direct calls of the public functions, outside a constructor.            *)
(***************************************************************************)
\* The normals and tangents handed to add_closure.
Normals == { ZeroVec, Nz, Vec(<<3, 1>>, <<4, 1>>, RZero) }
Tangents == { ZeroVec, Tx, Vec(RZero, <<5, 1>>, <<12, 1>>) }

\* add_closure(closure_type, original_shading_basis, weight, normal) and
\* add_closure(closure_type, original_shading_basis, weight, normal,
\* tangent), called on the composite.
AddClosure ==
    /\ phase = "idle"
    /\ g_closure_convert_funs = register_closures_table
    /\ \E closure_type \in { OrenNayarID, GlossyGGXID } :
       \E weight \in { White, HalfWhite } :
       \E normal \in Normals :
       \E has_tangent \in BOOLEAN :
       \E tangent \in (IF has_tangent THEN Tangents ELSE { ZeroVec }) :
       \E o \in do_add_closure(cc, closure_type, OriginalShadingBasis, weight,
                               normal, has_tangent, tangent) :
          /\ o.exc = "assert" => build = "any"
          /\ build' = IF o.passed THEN "release" ELSE build
          /\ cc' = o.cc
          /\ phase' = CASE o.exc = "none" -> "idle"
                        [] o.exc = "throw" -> "failed"
                        [] OTHER -> "aborted"
          /\ error' = IF o.exc = "none" THEN error ELSE o.msg
          /\ ret' = [op |-> "add_closure", normal |-> normal,
                     has_tangent |-> has_tangent, tangent |-> tangent,
                     exc |-> o.exc]
    /\ UNCHANGED <<g_closure_convert_funs, kind, ci, stack,
                 sampling_context, registration, worker>>

NextCalls ==
    \/ RegisterClosures
    \/ AddClosure

SpecCalls == Init /\ [][NextCalls]_vars

(***************************************************************************)
(* The surface composite and the binding of its layered entries.           *)
(***************************************************************************)
\* The trees handed to the constructor of the surface composite here.
SurfaceTrees ==
    {Null} \cup UNION { TreesOfSize("surface", n) : n \in 1..(MaxNodes - 1) }

\* Entry of CompositeSurfaceClosure's constructor.
ConstructSurface ==
    /\ phase = "idle"
    /\ g_closure_convert_funs = register_closures_table
    /\ \E t \in SurfaceTrees :
          /\ kind' = "surface"
          /\ ci' = t
          /\ stack' = <<Frame(t, White)>>
    /\ phase' = "walk"
    /\ UNCHANGED <<g_closure_convert_funs, cc, error, build, ret,
                 sampling_context, registration, worker>>

\* The handle of the BSDF built from a substrate.
OslBsdf == 1

LayeredIdAssertMsg == "assert(closure_id >= FirstLayeredClosure)"

\* assert_otherwise of foundation/utility/otherwise.h, the default case of
\* a switch: an assertion that fails, and nothing where assertions are
\* compiled out.
assert_otherwise(c) ==
    { Aborted(c, "Unhandled case in switch statement."), Passed(c) }

\* inject_layered_closure_values writing the handle into the substrate's
\* closure data as well.
inject_layered_closure_values_WritesTwoFields(c, closure_id, osl_bsdf, index) ==
    IF closure_id < FirstLayeredClosure
    THEN { Aborted(c, LayeredIdAssertMsg), Passed(c) }
    ELSE { Returned([c EXCEPT !.m_values[index].m_osl_bsdf = osl_bsdf,
                              !.m_values[index].m_substrate_closure_data =
                                  osl_bsdf]) }

\* inject_layered_closure_values with no test of the closure id.
inject_layered_closure_values_AnyId(c, closure_id, osl_bsdf, index) ==
    { Returned([c EXCEPT !.m_values[index] =
                   [f \in DOMAIN c.m_values[index] \cup { "m_osl_bsdf" } |->
                       IF f = "m_osl_bsdf" THEN osl_bsdf
                       ELSE c.m_values[index][f]]]) }

\* inject_layered_closure_values(closure_id, osl_bsdf, data), data being the
\* input values of entry index of the composite.  Without assertions the
\* switch has no case for an id other than AlSurfaceLayerID.
inject_layered_closure_values(c, closure_id, osl_bsdf, index) ==
    IF closure_id < FirstLayeredClosure
    THEN { Aborted(c, LayeredIdAssertMsg) }
             \cup { Passed(o.cc) : o \in assert_otherwise(c) }
    ELSE IF closure_id = AlSurfaceLayerID
    THEN { Returned([c EXCEPT !.m_values[index].m_osl_bsdf = osl_bsdf]) }
    ELSE assert_otherwise(c)

\* inject_layered_closure_values called for an entry of a constructed
\* surface composite, with the entry's closure type.
InjectLayeredClosureValues ==
    /\ phase = "ready"
    /\ kind = "surface"
    /\ \E index \in 0..(cc.m_num_closures - 1) :
       \E o \in inject_layered_closure_values(cc, cc.m_closure_types[index],
                                              OslBsdf, index) :
          /\ o.exc = "assert" => build = "any"
          /\ build' = IF o.passed THEN "release" ELSE build
          /\ cc' = o.cc
          /\ phase' = IF o.exc = "none" THEN "ready" ELSE "aborted"
          /\ error' = IF o.exc = "none" THEN error ELSE o.msg
          /\ ret' = [op |-> "inject_layered_closure_values", w |-> RZero,
                     index |-> index, ior |-> RZero]
    /\ UNCHANGED <<g_closure_convert_funs, kind, ci, stack,
                 sampling_context, registration, worker>>

NextLayered ==
    \/ RegisterClosures
    \/ ConstructSurface
    \/ ProcessClosureTree
    \/ SurfaceConstructed
    \/ InjectLayeredClosureValues

SpecLayered == Init /\ [][NextLayered]_vars

(***************************************************************************)
(* choose_closure on the caller's sampling context.                        *)
(***************************************************************************)
\* choose_closure(sampling_context) drawing a scalar whatever the number
\* of entries.
choose_closure_sampling_context_AlwaysDraws(c, s) ==
    [index |-> choose_closure(c, s), draws |-> 1]

\* CompositeClosure::choose_closure(SamplingContext&), s being the scalar
\* split_in_place(1, 1) and next2<float>() take from the context: the index
\* returned and the number of scalars drawn.
choose_closure_sampling_context(c, s) ==
    IF c.m_num_closures = 1
    THEN [index |-> 0, draws |-> 0]
    ELSE [index |-> choose_closure(c, s), draws |-> 1]

\* choose_closure(sampling_context) on a constructed composite that holds
\* an entry.
ChooseClosureSampled ==
    /\ phase = "ready"
    /\ cc.m_num_closures > 0
    /\ sampling_context < MaxDraws
    /\ \E s \in USamples :
          LET r == choose_closure_sampling_context(cc, s)
          IN  /\ ret' = [op |-> "choose_closure_sampling_context", w |-> s,
                         index |-> r.index, ior |-> RZero]
              /\ sampling_context' = sampling_context + r.draws
    /\ UNCHANGED <<g_closure_convert_funs, phase, kind, ci, stack, cc, error,
                   build, registration, worker>>

NextSampling ==
    \/ RegisterClosures
    \/ ConstructSurface
    \/ ProcessClosureTree
    \/ SurfaceConstructed
    \/ ChooseClosureSampled

SpecSampling == Init /\ [][NextSampling]_vars

(***************************************************************************)
(* register_closures step by step, beside a thread that builds a surface   *)
(* composite.  The table is a plain array written and read without         *)
(* synchronization; a read of a slot sees the pointer last written to it.  *)
(***************************************************************************)
\* The register_closure<ClosureType> calls of register_closures, in order.
RegistrationOrder ==
    << "AlSurfaceLayerClosure", "AshikhminShirleyClosure", "BackgroundClosure",
       "DebugClosure", "DiffuseClosure", "DisneyClosure", "EmissionClosure",
       "GlassClosure", "GlossyClosure", "HoldoutClosure", "MetalClosure",
       "OrenNayarClosure", "PhongClosure", "ReflectionClosure", "SheenClosure",
       "SubsurfaceClosure", "TranslucentClosure", "TransparentClosure" >>

\* One pass of the loop of register_closures that leaves a slot alone when
\* it holds a conversion already.
register_closures_clear_KeepsRegistered(table, i) ==
    IF table[i] = "null" THEN [table EXCEPT ![i] = "nop"] ELSE table

\* g_closure_convert_funs[i] = &convert_closure_nop
register_closures_clear(table, i) == [table EXCEPT ![i] = "nop"]

\* ClosureType::register_closure: g_closure_convert_funs[id()] =
\* &convert_closure, in the closure types that have a conversion.
register_closure(table, ClosureType) ==
    [i \in TableSlots |->
        IF i \in DOMAIN RegisteredConversions /\ RegisteredConversions[i] = ClosureType
        THEN ClosureType ELSE table[i]]

\* register_closures is called.
RegisterClosuresCall ==
    /\ registration.pc = "idle"
    /\ registration.calls < MaxRegistrations
    /\ registration' = [registration EXCEPT !.pc = "clear", !.i = 0]
    /\ UNCHANGED <<g_closure_convert_funs, phase, kind, ci, stack, cc, error,
                 build, ret, sampling_context, worker>>

\* One pass of the loop over the slots.
RegisterClosuresClear ==
    /\ registration.pc = "clear"
    /\ g_closure_convert_funs' =
           register_closures_clear(g_closure_convert_funs, registration.i)
    /\ registration' =
           IF registration.i + 1 < NumClosuresIDs
           THEN [registration EXCEPT !.i = registration.i + 1]
           ELSE [registration EXCEPT !.pc = "install", !.i = 1]
    /\ UNCHANGED <<phase, kind, ci, stack, cc, error, build, ret,
                 sampling_context, worker>>

\* One register_closure<ClosureType> call; register_closures returns after
\* the last one.
RegisterClosure ==
    /\ registration.pc = "install"
    /\ g_closure_convert_funs' =
           register_closure(g_closure_convert_funs,
                            RegistrationOrder[registration.i])
    /\ registration' =
           IF registration.i < Len(RegistrationOrder)
           THEN [registration EXCEPT !.i = registration.i + 1]
           ELSE [pc |-> "idle", i |-> 0, calls |-> registration.calls + 1]
    /\ UNCHANGED <<phase, kind, ci, stack, cc, error, build, ret,
                 sampling_context, worker>>

\* The trees the thread beside register_closures builds its composite of.
RegistrationTrees ==
    { DiffuseLeaf(White),
      GlassLeaf(White, "ggx", <<3, 2>>),
      TransparentLeaf(White),
      Add(DiffuseLeaf(White), GlassLeaf(White, "ggx", <<3, 2>>)),
      LayerLeaf(White, DiffuseLeaf(White)) }

\* Entry of CompositeSurfaceClosure's constructor, whatever the state of
\* the table.
ConstructSurfaceUnsynchronized ==
    /\ phase = "idle"
    /\ \E t \in RegistrationTrees :
          /\ kind' = "surface"
          /\ ci' = t
          /\ stack' = <<Frame(t, White)>>
    /\ phase' = "walk"
    /\ UNCHANGED <<g_closure_convert_funs, cc, error, build, ret,
                 sampling_context, registration, worker>>

NextRegistration ==
    \/ RegisterClosuresCall
    \/ RegisterClosuresClear
    \/ RegisterClosure
    \/ ConstructSurfaceUnsynchronized
    \/ ProcessClosureTree
    \/ SurfaceConstructed

SpecRegistration == Init /\ [][NextRegistration]_vars

(***************************************************************************)
(* Two threads, each building a composite of its own, once                 *)
(* register_closures has returned.  The first thread's constructor runs    *)
(* on phase, kind, ci, stack, cc and error; the second thread's on the     *)
(* fields of worker.                                                       *)
(***************************************************************************)
\* The trees each thread builds its composite of.
ThreadTrees(k) ==
    CASE k = "surface" ->
             { DiffuseLeaf(White),
               Add(DiffuseLeaf(White), GlassLeaf(Red2, "beckmann", <<2, 1>>)),
               Mul(HalfWhite, GlassLeaf(White, "ggx", <<3, 2>>)),
               MetalLeaf(White, "blinn"),
               LayerLeaf(White, DiffuseLeaf(White)) }
      [] k = "subsurface" ->
             { SubsurfaceLeaf(White, "standard_dipole"),
               Add(SubsurfaceLeaf(White, "standard_dipole"),
                   Mul(HalfWhite, SubsurfaceLeaf(White, "standard_dipole"))),
               LayerLeaf(White, SubsurfaceLeaf(HalfWhite, "gaussian")) }
      [] OTHER ->
             { EmissionLeaf(Red2),
               Add(EmissionLeaf(Red2), Mul(HalfWhite, EmissionLeaf(Red2))) }

\* Entry of a composite's constructor in the first thread.
ConstructMain ==
    /\ phase = "idle"
    /\ g_closure_convert_funs = register_closures_table
    /\ \E k \in Kinds : \E t \in ThreadTrees(k) :
          /\ kind' = k
          /\ ci' = t
          /\ stack' = <<Frame(t, White)>>
    /\ phase' = "walk"
    /\ UNCHANGED <<g_closure_convert_funs, cc, error, build, ret,
                 sampling_context, registration, worker>>

\* Entry of a composite's constructor in the second thread, on an object
\* of that thread.
ConstructWorker ==
    /\ worker.phase = "none"
    /\ g_closure_convert_funs = register_closures_table
    /\ \E k \in Kinds : \E t \in ThreadTrees(k) : \E junk \in Junk :
          worker' = [phase |-> "walk", kind |-> k, ci |-> t,
                     stack |-> <<Frame(t, White)>>,
                     cc |-> NewComposite(junk), error |-> ""]
    /\ UNCHANGED <<g_closure_convert_funs, phase, kind, ci, stack, cc, error,
                 build, ret, sampling_context, registration>>

\* Every instance writing the arrays of one object.
ThisComposite_SharedStorage(thread) == cc

\* *this in a member function run by a thread: the object that thread
\* constructs; its arrays are members of the object.
ThisComposite(thread) == IF thread = "main" THEN cc ELSE worker.cc

\* One call of process_closure_tree in the second thread.
ProcessClosureTreeWorker ==
    /\ worker.phase = "walk"
    /\ worker.stack # <<>>
    /\ \E st \in ProcessFrame(worker.kind, g_closure_convert_funs,
                              ThisComposite("worker"), Head(worker.stack)) :
       \E o \in st.outcomes :
          /\ o.exc = "assert" => build = "any"
          /\ o.passed => build' = "release"
          /\ ~o.passed => build' = build
          /\ worker' =
                 IF o.exc = "none"
                 THEN [worker EXCEPT !.cc = o.cc,
                                     !.stack = st.push \o Tail(worker.stack)]
                 ELSE [worker EXCEPT
                         !.cc = o.cc,
                         !.stack = <<>>,
                         !.phase = IF o.exc = "throw" THEN "failed" ELSE "aborted",
                         !.error = o.msg]
    /\ UNCHANGED <<g_closure_convert_funs, phase, kind, ci, stack, cc, error,
                 ret, sampling_context, registration>>

\* The rest of the constructor in the second thread.
WorkerConstructed ==
    /\ worker.phase = "walk"
    /\ worker.stack = <<>>
    /\ worker' =
           [worker EXCEPT
              !.cc = IF worker.kind = "surface"
                     THEN SurfaceFinish(ThisComposite("worker"))
                     ELSE compute_cdf(ThisComposite("worker")),
              !.phase = "ready"]
    /\ UNCHANGED <<g_closure_convert_funs, phase, kind, ci, stack, cc, error,
                 build, ret, sampling_context, registration>>

NextThreads ==
    \/ RegisterClosures
    \/ ConstructMain
    \/ ProcessClosureTree
    \/ SurfaceConstructed
    \/ SubsurfaceConstructed
    \/ EmissionConstructed
    \/ ChooseClosure
    \/ ConstructWorker
    \/ ProcessClosureTreeWorker
    \/ WorkerConstructed

SpecThreads == Init /\ [][NextThreads]_vars

(***************************************************************************)
(* The scalar extractors of a closure tree.                                *)
(***************************************************************************)
BackgroundLeaf(w) == Component(BackgroundID, w, [none |-> 0])
HoldoutLeaf(w) == Component(HoldoutID, w, [none |-> 0])

\* The leaves of the trees handed to the extractors.
IdLeaves ==
    { TransparentLeaf(White), TransparentLeaf(HalfWhite), HoldoutLeaf(White),
      BackgroundLeaf(Red2), DiffuseLeaf(White) }

\* The trees of exactly n nodes over these leaves.
RECURSIVE IdTreesOfSize(_)
IdTreesOfSize(n) ==
    IF n < 1 THEN {}
    ELSE IF n = 1 THEN IdLeaves
    ELSE   { Mul(c, t) : c \in MulWeights, t \in IdTreesOfSize(n - 1) }
      \cup { LayerLeaf(c, t) : c \in { White, NegWhite },
                               t \in IdTreesOfSize(n - 1) \cup
                                     (IF n = 2 THEN {Null} ELSE {}) }
      \cup UNION { { Add(a, b) : a \in IdTreesOfSize(i),
                                 b \in IdTreesOfSize(n - 1 - i) }
                   : i \in 1..(n - 2) }

IdTrees == {Null} \cup UNION { IdTreesOfSize(n) : n \in 1..MaxNodes }

\* saturate of foundation/math/scalar.h: the value clamped to [0, 1].
saturate(x) == IF RLt(x, RZero) THEN RZero ELSE IF RLt(ROne, x) THEN ROne ELSE x

\* The substrate of a layered leaf of the trees above, whose parameters all
\* have the layout of a layered closure: the one pointer
\* get_nested_closure_color can return.
Nested(closure) ==
    CHOOSE nested \in get_nested_closure_color(closure.id, closure.data) : TRUE

\* do_process_closure_id_tree missing the weight of a layered leaf.
RECURSIVE do_process_closure_id_tree_LayerUnweighted(_, _)
do_process_closure_id_tree_LayerUnweighted(closure, closure_id) ==
    CASE closure.type = "MUL" ->
             ColorMul(closure.weight,
                      do_process_closure_id_tree_LayerUnweighted(closure.closure, closure_id))
      [] closure.type = "ADD" ->
             ColorAdd(do_process_closure_id_tree_LayerUnweighted(closure.closureA, closure_id),
                      do_process_closure_id_tree_LayerUnweighted(closure.closureB, closure_id))
      [] closure.type = "COMPONENT" ->
             IF closure.id = closure_id THEN closure.w
             ELSE IF closure.id >= FirstLayeredClosure
             THEN do_process_closure_id_tree_LayerUnweighted(Nested(closure),
                                                             closure_id)
             ELSE Black
      [] OTHER -> Black

\* do_process_closure_id_tree(closure, closure_id)
RECURSIVE do_process_closure_id_tree(_, _)
do_process_closure_id_tree(closure, closure_id) ==
    CASE closure.type = "MUL" ->
             ColorMul(closure.weight,
                      do_process_closure_id_tree(closure.closure, closure_id))
      [] closure.type = "ADD" ->
             ColorAdd(do_process_closure_id_tree(closure.closureA, closure_id),
                      do_process_closure_id_tree(closure.closureB, closure_id))
      [] closure.type = "COMPONENT" ->
             IF closure.id = closure_id THEN closure.w
             ELSE IF closure.id >= FirstLayeredClosure
             THEN ColorMul(closure.w,
                           do_process_closure_id_tree(Nested(closure), closure_id))
             ELSE Black
      [] OTHER -> Black

\* process_transparency_tree keeping the transparency as the alpha.
process_transparency_tree_KeepsTransparency(ci_) ==
    saturate(luminance(do_process_closure_id_tree(ci_, TransparentID)))

\* process_transparency_tree(ci, alpha): the value alpha is set to.
process_transparency_tree(ci_) ==
    LET transparency ==
            saturate(luminance(do_process_closure_id_tree(ci_, TransparentID)))
    IN  RSub(ROne, transparency)

\* process_holdout_tree(ci)
process_holdout_tree(ci_) ==
    saturate(luminance(do_process_closure_id_tree(ci_, HoldoutID)))

\* process_background_tree(ci)
process_background_tree(ci_) == do_process_closure_id_tree(ci_, BackgroundID)

\* process_transparency_tree called on the tree; alpha is the output.
ProcessTransparencyTree ==
    /\ phase = "idle"
    /\ ret' = [op |-> "process_transparency_tree", ci |-> ci,
               alpha |-> process_transparency_tree(ci)]
    /\ UNCHANGED <<g_closure_convert_funs, phase, kind, ci, stack, cc, error, build,
                 sampling_context, registration, worker>>

\* process_holdout_tree called on the tree.
ProcessHoldoutTree ==
    /\ phase = "idle"
    /\ ret' = [op |-> "process_holdout_tree", ci |-> ci,
               holdout |-> process_holdout_tree(ci)]
    /\ UNCHANGED <<g_closure_convert_funs, phase, kind, ci, stack, cc, error, build,
                 sampling_context, registration, worker>>

\* process_background_tree called on the tree.
ProcessBackgroundTree ==
    /\ phase = "idle"
    /\ ret' = [op |-> "process_background_tree", ci |-> ci,
               background |-> process_background_tree(ci)]
    /\ UNCHANGED <<g_closure_convert_funs, phase, kind, ci, stack, cc, error, build,
                 sampling_context, registration, worker>>

NextTrees ==
    \/ ProcessTransparencyTree
    \/ ProcessHoldoutTree
    \/ ProcessBackgroundTree

\* The shader group left the tree ci; no composite is under construction.
InitTrees ==
    /\ g_closure_convert_funs = [i \in TableSlots |-> "null"]
    /\ phase = "idle"
    /\ kind = "none"
    /\ ci \in IdTrees
    /\ stack = <<>>
    /\ cc \in { NewComposite(junk) : junk \in Junk }
    /\ error = ""
    /\ build = "any"
    /\ ret = NoCall
    /\ sampling_context = 0
    /\ registration = NotRegistering
    /\ worker = NoWorker

SpecTrees == InitTrees /\ [][NextTrees]_vars

(***************************************************************************)
(* Reference definitions for the properties below.                         *)
(***************************************************************************)
\* The leaves of a tree of ADD and COMPONENT nodes, left to right.
RECURSIVE LeafSeq(_)
LeafSeq(t) ==
    IF t.type = "ADD" THEN LeafSeq(t.closureA) \o LeafSeq(t.closureB) ELSE <<t>>

\* A tree made only of leaves joined by ADD whose closure ids the variant
\* k treats as leaves: a slot of the dispatch table for the surface
\* variant, an id below the layered ones for the other two.
RECURSIVE IsLeavesOnly(_, _)
IsLeavesOnly(k, t) ==
    CASE t.type = "COMPONENT" ->
             IF k = "surface" THEN t.id \in TableSlots
             ELSE t.id < FirstLayeredClosure
      [] t.type = "ADD" -> IsLeavesOnly(k, t.closureA) /\ IsLeavesOnly(k, t.closureB)
      [] OTHER -> FALSE

\* The weight metric of the variant k.
Metric(k, w) == IF k = "emission" THEN max_value(w) ELSE luminance(w)

\* The variant k has a conversion for the closure id.
HasConversion(k, id) ==
    CASE k = "surface" -> id \in DOMAIN RegisteredConversions
      [] k = "subsurface" -> id = SubsurfaceID
      [] OTHER -> id = EmissionID

PositiveLeaves(k, t) ==
    LET ls == LeafSeq(t)
    IN  { i \in DOMAIN ls : RLt(RZero, Metric(k, ls[i].w)) }

ConvertedLeaves(k, t) ==
    LET ls == LeafSeq(t)
    IN  { i \in PositiveLeaves(k, t) : HasConversion(k, ls[i].id) }

Entries(c) == 0 .. c.m_num_closures - 1

RECURSIVE RSum(_, _)
RSum(f, n) == IF n = 0 THEN RZero ELSE RAdd(RSum(f, n - 1), f[n - 1])

\* C1 (as amended): for a tree made only of leaves joined by ADD, a
\* constructed composite holds one entry per leaf whose weight metric is
\* strictly positive and whose closure id has a conversion in the variant;
\* no entry of any composite has a weight whose metric is zero or negative.
C1_EntryPerConvertedPositiveLeaf ==
    /\ (phase = "ready" /\ IsLeavesOnly(kind, ci))
           => cc.m_num_closures = Cardinality(ConvertedLeaves(kind, ci))
    /\ kind # "none"
           => \A i \in Entries(cc) : RLt(RZero, Metric(kind, cc.m_weights[i]))

\* C1 as stated: the entry count is the number of leaves with a positive
\* weight metric.
C1_EntryPerPositiveLeaf ==
    (phase = "ready" /\ IsLeavesOnly(kind, ci))
        => cc.m_num_closures = Cardinality(PositiveLeaves(kind, ci))

\* A surface composite built from three leaves, one converted, one of zero
\* weight and one positive with no conversion registered.
C1_Witness ==
    /\ phase = "ready"
    /\ kind = "surface"
    /\ IsLeavesOnly(kind, ci)
    /\ Len(LeafSeq(ci)) = 3
    /\ cc.m_num_closures = 1
    /\ Cardinality(PositiveLeaves(kind, ci)) = 2

\* C2: once compute_cdf ran on a composite with at least one entry, m_cdf
\* is non-decreasing over the entries and its last element is exactly 1.
C2_CdfNonDecreasingEndsAtOne ==
    (phase = "ready" /\ cc.m_num_closures >= 1)
        => /\ \A i \in Entries(cc) :
                 i + 1 \in Entries(cc) => RLe(cc.m_cdf[i], cc.m_cdf[i + 1])
           /\ cc.m_cdf[cc.m_num_closures - 1] = ROne

C2_Witness ==
    /\ phase = "ready"
    /\ cc.m_num_closures = 2
    /\ RLt(cc.m_cdf[0], cc.m_cdf[1])
    /\ cc.m_cdf[0] # <<1, 2>>

\* C3: once compute_cdf ran on a composite with at least one entry, the
\* pdf weights of the entries sum to 1.
C3_PdfWeightsSumToOne ==
    (phase = "ready" /\ cc.m_num_closures >= 1)
        => RSum(cc.m_pdf_weights, cc.m_num_closures) = ROne

C3_Witness ==
    /\ phase = "ready"
    /\ cc.m_num_closures = 2
    /\ cc.m_pdf_weights[0] # cc.m_pdf_weights[1]

\* C4: choose_closure(u), u in [0, 1), returns an index within the entries,
\* the smallest whose cdf value is at least u; u = 0 gives index 0 and a u
\* above every cdf value but the last gives the last index.
C4_ChooseClosureSmallestIndex ==
    ret.op = "choose_closure"
        => /\ ret.index \in Entries(cc)
           /\ RLe(ret.w, cc.m_cdf[ret.index])
           /\ \A j \in Entries(cc) : j < ret.index => RLt(cc.m_cdf[j], ret.w)
           /\ ret.w = RZero => ret.index = 0
           /\ (\A j \in Entries(cc) :
                   j < cc.m_num_closures - 1 => RLt(cc.m_cdf[j], ret.w))
                  => ret.index = cc.m_num_closures - 1

C4_Witness ==
    /\ ret.op = "choose_closure"
    /\ cc.m_num_closures = 2
    /\ ret.w = <<999, 1000>>
    /\ ret.index = 1

\* The head of the pending calls is a leaf the variant converts, with
\* parameters its conversion accepts: the call reaches add_closure.
ReachesAddClosure ==
    /\ phase = "walk"
    /\ stack # <<>>
    /\ LET f == Head(stack)
       IN  /\ f.closure.type = "COMPONENT"
           /\ HasConversion(kind, f.closure.id)
           /\ RLt(RZero, Metric(kind, ColorMul(f.weight, f.closure.w)))
           /\ "dist" \in DOMAIN f.closure.data
                  => f.closure.data.dist \in {"ggx", "beckmann"}
           /\ "profile" \in DOMAIN f.closure.data
                  => f.closure.data.profile \in
                         {"better_dipole", "standard_dipole", "directional_dipole"}

\* C5: an add_closure call on a composite that holds MaxClosureEntries
\* entries throws the capacity error and leaves the composite as it was;
\* the error is thrown in no other situation.
C5_FullCompositeRejectsAdd ==
    [][/\ (ReachesAddClosure /\ cc.m_num_closures = MaxClosureEntries)
              => (error' = MaxClosuresMsg /\ phase' = "failed" /\ cc' = cc)
       /\ (error = "" /\ error' = MaxClosuresMsg)
              => (cc.m_num_closures = MaxClosureEntries /\ cc' = cc)]_vars

C5_Witness ==
    /\ phase = "failed"
    /\ error = MaxClosuresMsg
    /\ cc.m_num_closures = MaxClosureEntries

\* The closure type of the entry the surface conversion of a leaf adds.
ConvertedClosureType(closure) ==
    LET id == closure.id
        p == closure.data
    IN  CASE id = DiffuseID -> OrenNayarID
          [] id = GlassID ->
                 IF p.dist = "ggx" THEN GlassGGXID ELSE GlassBeckmannID
          [] id = GlossyID ->
                 IF p.dist = "ggx" THEN GlossyGGXID ELSE GlossyBeckmannID
          [] id = MetalID ->
                 IF p.dist = "ggx" THEN MetalGGXID ELSE MetalBeckmannID
          [] id = PhongID -> AshikhminShirleyID
          [] id = ReflectionID -> GlossyBeckmannID
          [] id = SubsurfaceID -> SubsurfaceStandardDipoleID
          [] OTHER -> id

\* The pending add_closure call finds a free entry but a pool too full for
\* the record of the entry.
PoolOverflowAttempt ==
    /\ ReachesAddClosure
    /\ cc.m_num_closures < MaxClosureEntries
    /\ cc.m_num_bytes + SizeOfInputValues(ConvertedClosureType(Head(stack).closure))
           > MaxPoolSize

\* C6 as stated: the bytes taken from the pool never exceed MaxPoolSize, and
\* an add_closure call whose record would not fit the pool throws the
\* capacity error of a full composite and leaves the composite as it was.
C6_PoolOverflowIsCapacityError ==
    /\ [](cc.m_num_bytes <= MaxPoolSize)
    /\ [][PoolOverflowAttempt
              => (error' = MaxClosuresMsg /\ phase' = "failed" /\ cc' = cc)]_vars

\* The pending call converts a leaf of the surface variant whose closure id
\* has no conversion registered.
UnregisteredLeafCall ==
    /\ phase = "walk"
    /\ kind = "surface"
    /\ stack # <<>>
    /\ Head(stack).closure.type = "COMPONENT"
    /\ Head(stack).closure.id \notin DOMAIN RegisteredConversions

\* C7 as stated: a leaf whose closure id has no conversion registered, id
\* 9999 included, is a no-op: the composite is unchanged, nothing is
\* thrown, and the walk goes on.
C7_UnregisteredIdIsNoOp ==
    [][UnregisteredLeafCall
           => (cc' = cc /\ phase' = "walk" /\ error' = error)]_vars

\* Scenario A: a white diffuse leaf scaled by 0.5 next to a glossy ggx leaf
\* of ior 1.5 and weight (0.5, 0.5, 0.5); and the same with a glass leaf
\* in place of the glossy one.
ScenarioA ==
    Add(Mul(HalfWhite, DiffuseLeaf(White)), GlossyLeaf(HalfWhite, "ggx", <<3, 2>>))

ScenarioAGlass ==
    Add(Mul(HalfWhite, DiffuseLeaf(White)),
        Mul(HalfWhite, GlassLeaf(White, "ggx", <<3, 2>>)))

ScenarioAEntries ==
    /\ cc.m_num_closures = 2
    /\ cc.m_pdf_weights[0] = <<1, 2>>
    /\ cc.m_pdf_weights[1] = <<1, 2>>
    /\ cc.m_cdf[0] = <<1, 2>>
    /\ cc.m_cdf[1] = ROne

\* C8 (as amended): the surface composite of Scenario A holds two entries
\* with pdf weights 0.5, 0.5 and cdf 0.5, 1.0; the glossy leaf registers no
\* IOR, so the IOR list is the single default 1.0 and choose_ior returns
\* 1.0; with a glass leaf in its place the single IOR is 1.5.
C8_ScenarioA ==
    /\ (phase = "ready" /\ kind = "surface" /\ ci = ScenarioA)
           => /\ ScenarioAEntries
              /\ cc.m_num_iors = 1
              /\ cc.m_iors[0] = ROne
              /\ ret.op = "choose_ior" => ret.ior = ROne
    /\ (phase = "ready" /\ kind = "surface" /\ ci = ScenarioAGlass)
           => /\ ScenarioAEntries
              /\ cc.m_num_iors = 1
              /\ cc.m_iors[0] = <<3, 2>>
              /\ ret.op = "choose_ior" => ret.ior = <<3, 2>>

\* C8 as stated: in Scenario A the IOR list is the single IOR 1.5 of the
\* glossy leaf, with weight 1.0.
C8_ScenarioA_GlossyIor ==
    (phase = "ready" /\ kind = "surface" /\ ci = ScenarioA)
        => /\ ScenarioAEntries
           /\ cc.m_num_iors = 1
           /\ cc.m_iors[0] = <<3, 2>>
           /\ cc.m_ior_cdf[0] = ROne

C8_Witness ==
    /\ phase = "ready"
    /\ kind = "surface"
    /\ ci = ScenarioA
    /\ cc.m_num_closures = 2
    /\ ret.op = "choose_ior"
    /\ ret.w = <<1, 2>>

\* The step that ends the constructor of a surface composite.
SurfaceFinishStep == phase = "walk" /\ kind = "surface" /\ phase' = "ready"

NonDecreasingToOne(cdf, n) ==
    /\ \A i \in 0 .. n - 2 : RLe(cdf[i], cdf[i + 1])
    /\ cdf[n - 1] = ROne

\* C9 (as amended): a constructed surface composite holds at least one
\* IOR; when the walk added none it holds exactly one, 1.0, for which no
\* weight is stored (the IOR cdf is left as it was), and choose_ior
\* returns 1.0 for every u.
C9_DefaultIor ==
    /\ []((phase = "ready" /\ kind = "surface") => cc.m_num_iors >= 1)
    /\ [][(SurfaceFinishStep /\ cc.m_num_iors = 0)
              => /\ cc'.m_num_iors = 1
                 /\ cc'.m_iors[0] = ROne
                 /\ cc'.m_ior_cdf = cc.m_ior_cdf
                 /\ \A w \in USamples : choose_ior(cc', w) = ROne]_vars

\* C9 as stated: the default IOR 1.0 carries the weight 1.0.
C9_DefaultIorHasWeightOne ==
    [][(SurfaceFinishStep /\ cc.m_num_iors = 0)
           => /\ cc'.m_num_iors = 1
              /\ cc'.m_iors[0] = ROne
              /\ cc'.m_ior_cdf[0] = ROne]_vars

GlassTypes == { GlassID, GlassBeckmannID, GlassGGXID }

\* A surface composite with an entry, none of them glass, whose IOR cdf
\* slot holds what the memory held before.
C9_Witness ==
    /\ phase = "ready"
    /\ kind = "surface"
    /\ cc.m_num_closures >= 1
    /\ \A i \in Entries(cc) : cc.m_closure_types[i] \notin GlassTypes
    /\ cc.m_num_iors = 1
    /\ cc.m_iors[0] = ROne
    /\ cc.m_ior_cdf[0] = <<1, 3>>

\* C10 (as amended): when the walk added two IORs or more, the IOR cdf of
\* the constructed composite is non-decreasing and ends at exactly 1; when
\* it added exactly one, the IOR cdf keeps the luminance add_ior stored,
\* and choose_ior returns that IOR for every u.
C10_IorCdf ==
    [][/\ (SurfaceFinishStep /\ cc.m_num_iors >= 2)
              => NonDecreasingToOne(cc'.m_ior_cdf, cc'.m_num_iors)
       /\ (SurfaceFinishStep /\ cc.m_num_iors = 1)
              => /\ cc'.m_ior_cdf = cc.m_ior_cdf
                 /\ cc'.m_num_iors = 1
                 /\ \A w \in USamples : choose_ior(cc', w) = cc.m_iors[0]]_vars

\* C10 as stated: the IOR cdf is non-decreasing and ends at exactly 1 for
\* every number of added IORs from one up.
C10_IorCdfFromOneIor ==
    [][(SurfaceFinishStep /\ cc.m_num_iors >= 1)
           => NonDecreasingToOne(cc'.m_ior_cdf, cc'.m_num_iors)]_vars

C10_Witness ==
    /\ phase = "ready"
    /\ kind = "surface"
    /\ cc.m_num_iors = 2
    /\ RLt(cc.m_ior_cdf[0], ROne)
    /\ cc.m_ior_cdf[1] = ROne
    /\ cc.m_iors[0] # cc.m_iors[1]

\* A vector of unit length along v.
IsUnitAlong(n, v) ==
    /\ square_norm(n) = ROne
    /\ \E k \in { <<1, 2>>, <<1, 3>>, <<1, 5>>, <<1, 13>> } : n = VecScale(v, k)

\* C11: the basis add_closure stores for the entry.  A nonzero normal with
\* a nonzero tangent gives the basis of the normalized normal and the
\* normalized tangent; a nonzero normal with no tangent or a zero tangent
\* gives the basis of the normalized normal and the tangent of the
\* fallback basis; a zero normal gives the fallback basis, whatever the
\* tangent.
C11_BasisDerivation ==
    (ret.op = "add_closure" /\ ret.exc = "none")
        => LET b == cc.m_bases[cc.m_num_closures - 1]
               use_tangent == ret.has_tangent /\ ret.tangent # ZeroVec
           IN  /\ (ret.normal # ZeroVec /\ use_tangent)
                      => /\ IsUnitAlong(b.n, ret.normal)
                         /\ IsUnitAlong(b.u, ret.tangent)
               /\ (ret.normal # ZeroVec /\ ~use_tangent)
                      => /\ IsUnitAlong(b.n, ret.normal)
                         /\ b.u = OriginalShadingBasis.u
               /\ ret.normal = ZeroVec => b = OriginalShadingBasis

\* A zero normal added with a nonzero tangent.
C11_Witness ==
    /\ ret.op = "add_closure"
    /\ ret.exc = "none"
    /\ ret.normal = ZeroVec
    /\ ret.has_tangent
    /\ ret.tangent # ZeroVec
    /\ cc.m_num_closures = 2
    /\ cc.m_bases[1] = OriginalShadingBasis

\* The leaves of a tree of MUL, ADD and COMPONENT nodes, left to right, each
\* with the product of the weights of the MUL nodes above it, gathered from
\* the leaves up.
RECURSIVE ScaledLeaves(_)
ScaledLeaves(t) ==
    CASE t.type = "COMPONENT" -> << [leaf |-> t, scale |-> White] >>
      [] t.type = "MUL" ->
             LET below == ScaledLeaves(t.closure)
             IN  [i \in DOMAIN below |->
                     [below[i] EXCEPT !.scale = ColorMul(t.weight, below[i].scale)]]
      [] t.type = "ADD" -> ScaledLeaves(t.closureA) \o ScaledLeaves(t.closureB)
      [] OTHER -> << >>

\* No leaf of the tree is one the variant k unwraps, and every id is one
\* the variant can look up.
RECURSIVE IsPlainTree(_, _)
IsPlainTree(k, t) ==
    CASE t.type = "COMPONENT" ->
             IF k = "surface" THEN t.id \in TableSlots
             ELSE t.id < FirstLayeredClosure
      [] t.type = "MUL" -> IsPlainTree(k, t.closure)
      [] t.type = "ADD" -> IsPlainTree(k, t.closureA) /\ IsPlainTree(k, t.closureB)
      [] OTHER -> TRUE

EffectiveWeight(sl) == ColorMul(sl.scale, sl.leaf.w)

\* The weights the conversions of the variant k are handed for the tree t.
ConvertedWeights(k, t) ==
    LET kept == SelectSeq(ScaledLeaves(t),
                          LAMBDA sl : /\ HasConversion(k, sl.leaf.id)
                                      /\ RLt(RZero, Metric(k, EffectiveWeight(sl))))
    IN  [i \in DOMAIN kept |-> EffectiveWeight(kept[i])]

StoredWeights(c) == [i \in 1 .. c.m_num_closures |-> c.m_weights[i - 1]]

\* C12: in every walker the weight a leaf's conversion is handed, which the
\* conversion stores as the entry's weight, is the product of the weights
\* of the MUL nodes on the path from the root to the leaf times the leaf's
\* own weight; an ADD node hands the running weight to both subtrees whole.
C12_WeightPropagation ==
    (phase = "ready" /\ IsPlainTree(kind, ci))
        => StoredWeights(cc) = ConvertedWeights(kind, ci)

\* Two leaves under a MUL node, the second under a MUL node of its own.
C12_Witness ==
    /\ phase = "ready"
    /\ ci.type = "MUL"
    /\ ci.closure.type = "ADD"
    /\ ci.closure.closureB.type = "MUL"
    /\ cc.m_num_closures = 2
    /\ cc.m_weights[0] = HalfWhite
    /\ cc.m_weights[1] = Gray(<<1, 4>>)

\* The non-layered leaves a walk of t reaches when it enters the substrate
\* of every layered leaf (gated = FALSE) or only of those whose effective
\* weight has a positive largest channel (gated = TRUE), each leaf with its
\* effective weight: the running weight w times the weights on its path.
RECURSIVE Unwrapped(_, _, _)
Unwrapped(gated, t, w) ==
    CASE t.type = "MUL" -> Unwrapped(gated, t.closure, ColorMul(w, t.weight))
      [] t.type = "ADD" ->
             Unwrapped(gated, t.closureA, w) \o Unwrapped(gated, t.closureB, w)
      [] t.type = "COMPONENT" ->
             LET e == ColorMul(w, t.w)
             IN  IF t.id < FirstLayeredClosure THEN << [leaf |-> t, w |-> e] >>
                 ELSE IF gated /\ ~RLt(RZero, max_value(e)) THEN << >>
                 ELSE Unwrapped(gated, t.data.substrate, e)
      [] OTHER -> << >>

\* The weights of the entries the variant k makes of the leaves reached.
EntryWeights(k, reached) ==
    LET kept == SelectSeq(reached,
                          LAMBDA r : /\ HasConversion(k, r.leaf.id)
                                     /\ RLt(RZero, Metric(k, r.w)))
    IN  [i \in DOMAIN kept |-> kept[i].w]

\* The pending call of the walker is on a leaf.
LeafCall ==
    /\ phase = "walk"
    /\ stack # <<>>
    /\ Head(stack).closure.type = "COMPONENT"

\* The pending call is on a leaf of the layered range.
LayeredLeafCall == LeafCall /\ Head(stack).closure.id >= FirstLayeredClosure

\* The call returns having added nothing.
SkipStep == stack' = Tail(stack) /\ cc' = cc /\ phase' = "walk"

\* The call walks the substrate of the leaf with the running weight times
\* the leaf's weight, and adds nothing itself.
UnwrapStep ==
    LET f == Head(stack)
    IN  /\ stack' = <<Frame(f.closure.data.substrate,
                            ColorMul(f.weight, f.closure.w))>> \o Tail(stack)
        /\ cc' = cc
        /\ phase' = "walk"

SubsurfaceTypes ==
    { SubsurfaceBetterDipoleID, SubsurfaceDirectionalDipoleID,
      SubsurfaceNormalizedDiffusionID, SubsurfaceStandardDipoleID }

\* C13: in the subsurface composite only leaves with the subsurface id and
\* an effective weight of positive luminance become entries; a leaf with
\* another id below the layered range is skipped without error; a leaf of
\* the layered range adds no entry, and its substrate is walked with the
\* running weight times the leaf's weight.
C13_SubsurfaceWalk ==
    /\ []((phase = "ready" /\ kind = "subsurface")
              => /\ StoredWeights(cc)
                        = EntryWeights(kind, Unwrapped(FALSE, ci, White))
                 /\ \A i \in Entries(cc) : cc.m_closure_types[i] \in SubsurfaceTypes)
    /\ [][(kind = "subsurface" /\ LayeredLeafCall) => UnwrapStep]_vars
    /\ [][(/\ kind = "subsurface"
           /\ LeafCall
           /\ Head(stack).closure.id < FirstLayeredClosure
           /\ Head(stack).closure.id # SubsurfaceID) => SkipStep]_vars

\* A layered leaf of negative weight over a subsurface leaf of negative
\* weight: the entry has their product as weight.
C13_Witness ==
    /\ phase = "ready"
    /\ kind = "subsurface"
    /\ ci.type = "COMPONENT"
    /\ ci.id = AlSurfaceLayerID
    /\ ci.w = NegWhite
    /\ cc.m_num_closures = 1
    /\ cc.m_weights[0] = White
    /\ cc.m_closure_types[0] = SubsurfaceBetterDipoleID

\* C14 (as amended): the emission walker enters the substrate of a layered
\* leaf, with the running weight times the leaf's weight, only when the
\* largest channel of that product is positive, and skips the leaf and its
\* substrate otherwise (the subsurface walker enters it whatever the
\* weight); only leaves with the emission id become emission entries.
C14_EmissionUnwrap ==
    /\ []((phase = "ready" /\ kind = "emission")
              => /\ StoredWeights(cc)
                        = EntryWeights(kind, Unwrapped(TRUE, ci, White))
                 /\ \A i \in Entries(cc) : cc.m_closure_types[i] = EmissionID)
    /\ [][(kind = "emission" /\ LayeredLeafCall)
              => IF RLt(RZero, max_value(ColorMul(Head(stack).weight,
                                                  Head(stack).closure.w)))
                 THEN UnwrapStep ELSE SkipStep]_vars

\* C14 as stated: both walkers enter the substrate of every layered leaf
\* with the running weight times the leaf's weight, whatever that weight.
C14_SameUnwrapInBothWalkers ==
    [][(kind \in { "subsurface", "emission" } /\ LayeredLeafCall)
           => UnwrapStep]_vars

\* A layered leaf of negative weight over an emission leaf of negative
\* weight: the product is positive, and the emission composite is empty.
C14_Witness ==
    /\ phase = "ready"
    /\ kind = "emission"
    /\ ci.type = "COMPONENT"
    /\ ci.id = AlSurfaceLayerID
    /\ ci.w = NegWhite
    /\ ci.data.substrate = EmissionLeaf(NegWhite)
    /\ cc.m_num_closures = 0

\* The pending call of the emission walker is on an emission leaf whose
\* effective weight has a positive largest channel, and an entry is free.
EmissionLeafCall ==
    /\ kind = "emission"
    /\ LeafCall
    /\ Head(stack).closure.id = EmissionID
    /\ RLt(RZero, max_value(ColorMul(Head(stack).weight, Head(stack).closure.w)))
    /\ cc.m_num_closures < MaxClosureEntries

\* C15: an emission leaf of effective weight w whose largest channel m is
\* positive gives the emission composite one entry of weight w and raw pdf
\* weight m, with radiance w / m and radiance multiplier m: the radiance
\* times the multiplier is w and the largest channel of the radiance is 1.
\* The leaf of weight (2, 0, 0) has radiance (1, 0, 0) and multiplier 2.
C15_EmissionEntry ==
    /\ [][EmissionLeafCall
              => LET w == ColorMul(Head(stack).weight, Head(stack).closure.w)
                     m == max_value(w)
                     n == cc.m_num_closures
                     values == cc'.m_values[n]
                 IN  /\ phase' = "walk"
                     /\ cc'.m_num_closures = n + 1
                     /\ cc'.m_closure_types[n] = EmissionID
                     /\ cc'.m_weights[n] = w
                     /\ cc'.m_pdf_weights[n] = m
                     /\ values.m_radiance = ColorDiv(w, m)
                     /\ values.m_radiance_multiplier = m
                     /\ ColorMul(values.m_radiance, Gray(m)) = w
                     /\ max_value(values.m_radiance) = ROne]_vars
    /\ []((phase = "ready" /\ kind = "emission" /\ ci = EmissionLeaf(Red2))
              => /\ cc.m_num_closures = 1
                 /\ cc.m_values[0].m_radiance = Color(ROne, RZero, RZero)
                 /\ cc.m_values[0].m_radiance_multiplier = <<2, 1>>)

\* The emission composite of an emission leaf of weight (2, 0, 0) scaled by
\* 0.5 next to one of weight (2, 0, 0).
C15_Witness ==
    /\ phase = "ready"
    /\ kind = "emission"
    /\ ci = Add(Mul(HalfWhite, EmissionLeaf(Red2)), EmissionLeaf(Red2))
    /\ cc.m_num_closures = 2
    /\ cc.m_values[0].m_radiance = Color(ROne, RZero, RZero)
    /\ cc.m_values[0].m_radiance_multiplier = ROne
    /\ cc.m_values[1].m_radiance_multiplier = <<2, 1>>

\* The step is a call of inject_layered_closure_values for an entry.
InjectStep == phase = "ready" /\ ret'.op = "inject_layered_closure_values"

\* C16: the conversion of a layered leaf leaves in the entry's record the
\* reference to the leaf's substrate and a null BSDF handle; a later
\* inject_layered_closure_values for that entry writes the handle into
\* m_osl_bsdf of that record and changes nothing else: the other fields of
\* the record, the other records and every other member of the composite
\* keep their values.
C16_TwoPhaseLayeredBinding ==
    /\ [][(/\ kind = "surface"
           /\ LeafCall
           /\ Head(stack).closure.id = AlSurfaceLayerID
           /\ cc'.m_num_closures = cc.m_num_closures + 1)
              => LET values == cc'.m_values[cc.m_num_closures]
                 IN  /\ cc'.m_closure_types[cc.m_num_closures] = AlSurfaceLayerID
                     /\ values.m_substrate = Head(stack).closure.data.substrate
                     /\ values.m_osl_bsdf = 0]_vars
    /\ [][(InjectStep /\ cc.m_closure_types[ret'.index] = AlSurfaceLayerID)
              => LET i == ret'.index
                 IN  /\ cc'.m_values[i].m_osl_bsdf = OslBsdf
                     /\ \A f \in DOMAIN cc.m_values[i] \ { "m_osl_bsdf" } :
                            cc'.m_values[i][f] = cc.m_values[i][f]
                     /\ DOMAIN cc'.m_values[i] = DOMAIN cc.m_values[i]
                     /\ \A j \in Slots \ { i } : cc'.m_values[j] = cc.m_values[j]
                     /\ \A m \in DOMAIN cc \ { "m_values" } : cc'[m] = cc[m]
                     /\ phase' = "ready"
                     /\ error' = error]_vars

\* A layered leaf over a diffuse substrate next to a diffuse leaf: the
\* layered entry was bound, the diffuse entry is as converted.
C16_Witness ==
    /\ phase = "ready"
    /\ kind = "surface"
    /\ ci = Add(LayerLeaf(White, DiffuseLeaf(White)), DiffuseLeaf(White))
    /\ cc.m_num_closures = 2
    /\ ret.op = "inject_layered_closure_values"
    /\ cc.m_closure_types[ret.index] = AlSurfaceLayerID
    /\ cc.m_values[ret.index].m_osl_bsdf = OslBsdf
    /\ cc.m_values[ret.index].m_substrate = DiffuseLeaf(White)

\* C17: inject_layered_closure_values with a closure id below
\* FirstLayeredClosure fails its assertion, or does nothing where assertions
\* are compiled out; in neither case is the record, or anything else of the
\* composite, written.
C17_NonLayeredIdNeverWrites ==
    [][(InjectStep /\ cc.m_closure_types[ret'.index] < FirstLayeredClosure)
          => /\ cc' = cc
             /\ \/ phase' = "aborted" /\ error' = LayeredIdAssertMsg /\ build = "any"
                \/ phase' = "ready" /\ build' = "release"]_vars

\* The binder was called for a diffuse entry and the assertion failed.
C17_Witness ==
    /\ phase = "aborted"
    /\ error = LayeredIdAssertMsg
    /\ ret.op = "inject_layered_closure_values"
    /\ cc.m_closure_types[ret.index] < FirstLayeredClosure
    /\ cc.m_closure_types[ret.index] >= 0
    /\ "m_osl_bsdf" \notin DOMAIN cc.m_values[ret.index]

RECURSIVE ColorSum(_, _)
ColorSum(f, n) == IF n = 0 THEN Black ELSE ColorAdd(ColorSum(f, n - 1), f[n])

\* The sum, over the leaves of id closure_id the tree t holds below its
\* scales and layered leaves, of the product of the weights on the path to
\* the leaf and the leaf's weight.
PathSum(t, closure_id) ==
    LET reached == SelectSeq(Unwrapped(FALSE, t, White),
                             LAMBDA r : r.leaf.id = closure_id)
    IN  ColorSum([i \in DOMAIN reached |-> reached[i].w], Len(reached))

\* The ids the extractors are called with.
TargetIds == { TransparentID, HoldoutID, BackgroundID }

\* C18: for the tree of every call and every target id,
\* do_process_closure_id_tree gives the sum over the leaves of that id of
\* the product of the weights on the path (scales and enclosing layered
\* leaves) and the leaf's weight: a null tree gives zero, a scale multiplies
\* the result of its child, a sum adds the results of its children, a leaf
\* of the id gives its weight, a layered leaf its weight times the result
\* of its substrate, any other leaf zero.
C18_ExtractorIsPathSum ==
    ret.op \in { "process_transparency_tree", "process_holdout_tree",
                 "process_background_tree" }
        => \A id \in TargetIds :
              LET t == ret.ci
                  r(x) == do_process_closure_id_tree(x, id)
              IN  /\ r(t) = PathSum(t, id)
                  /\ r(Null) = Black
                  /\ t.type = "MUL" => r(t) = ColorMul(t.weight, r(t.closure))
                  /\ t.type = "ADD" =>
                         r(t) = ColorAdd(r(t.closureA), r(t.closureB))
                  /\ (t.type = "COMPONENT" /\ t.id = id) => r(t) = t.w
                  /\ (t.type = "COMPONENT" /\ t.id >= FirstLayeredClosure) =>
                         r(t) = ColorMul(t.w, r(t.data.substrate))
                  /\ (t.type = "COMPONENT" /\ t.id # id
                          /\ t.id < FirstLayeredClosure) => r(t) = Black

\* A background leaf of weight (2, 0, 0) under a scale of 0.5 and a layered
\* leaf of weight -1, next to one more: the background is (1, 0, 0).
C18_Witness ==
    /\ ret.op = "process_background_tree"
    /\ ret.ci = Add(LayerLeaf(NegWhite, Mul(HalfWhite, BackgroundLeaf(Red2))),
                    BackgroundLeaf(Red2))
    /\ ret.background = Color(ROne, RZero, RZero)

\* The value clamped to the interval from zero to one.
Clamp01(x) == IF RLe(x, RZero) THEN RZero ELSE IF RLe(ROne, x) THEN ROne ELSE x

ExtractorOps ==
    { "process_transparency_tree", "process_holdout_tree",
      "process_background_tree" }

\* C19: the alpha process_transparency_tree sets is one minus the clamped
\* luminance of the sum of the transparent leaves' contributions, the value
\* of process_holdout_tree is the clamped luminance of the sum of the
\* holdout leaves' contributions, and process_background_tree returns the
\* sum of the background leaves' contributions unclamped; opacity and
\* holdout lie in [0, 1]; a call leaves the tree, the composite and the
\* dispatch table as they were, and no entry is made.
C19_OpacityHoldoutBackground ==
    /\ [](/\ ret.op = "process_transparency_tree"
              => /\ ret.alpha =
                        RSub(ROne, Clamp01(luminance(PathSum(ret.ci, TransparentID))))
                 /\ RLe(RZero, ret.alpha) /\ RLe(ret.alpha, ROne)
          /\ ret.op = "process_holdout_tree"
              => /\ ret.holdout = Clamp01(luminance(PathSum(ret.ci, HoldoutID)))
                 /\ RLe(RZero, ret.holdout) /\ RLe(ret.holdout, ROne)
          /\ ret.op = "process_background_tree"
              => ret.background = PathSum(ret.ci, BackgroundID)
          /\ ret.op \in ExtractorOps
              => ret.ci = ci /\ cc.m_num_closures = 0 /\ phase = "idle")
    /\ [][ret'.op \in ExtractorOps
              => UNCHANGED <<g_closure_convert_funs, phase, kind, ci, stack, cc,
                             error, build>>]_vars

\* Two transparent leaves of weight 1 each: the transparency of 2 is clamped
\* to 1 and the opacity is 0.
C19_Witness ==
    /\ ret.op = "process_transparency_tree"
    /\ ret.ci = Add(TransparentLeaf(White), TransparentLeaf(White))
    /\ luminance(PathSum(ret.ci, TransparentID)) = <<2, 1>>
    /\ ret.alpha = RZero

\* The profile names SubsurfaceClosure::convert_closure compares with.
RecognizedProfiles ==
    { "normalized_diffusion", "better_dipole", "standard_dipole",
      "directional_dipole" }

\* The pending call converts a glass, glossy or metal leaf whose
\* distribution is neither "ggx" nor "beckmann", or a subsurface leaf whose
\* profile is not a recognized one.
InvalidVariantCall ==
    /\ LeafCall
    /\ HasPositiveLuminance(ColorMul(Head(stack).weight, Head(stack).closure.w))
    /\ \/ /\ kind = "surface"
          /\ Head(stack).closure.id \in { GlassID, GlossyID, MetalID }
          /\ Head(stack).closure.data.dist \notin { "ggx", "beckmann" }
       \/ /\ kind = "subsurface"
          /\ Head(stack).closure.id = SubsurfaceID
          /\ Head(stack).closure.data.profile \notin RecognizedProfiles

\* C20: the conversion of a glass, glossy or metal leaf whose distribution
\* is neither "ggx" nor "beckmann", or of a subsurface leaf whose profile is
\* not recognized, throws the runtime error with a message that names the
\* distribution or profile, and leaves the composite as it was: no entry,
\* no pool byte and no ior is added.  On every composite reached, the glass
\* and glossy conversions of such a leaf do nothing but throw.
C20_UnrecognizedVariantThrowsFirst ==
    /\ [][InvalidVariantCall
              => /\ phase' = "failed"
                 /\ error' = (IF kind = "surface"
                              THEN "invalid microfacet distribution function: "
                                       \o Head(stack).closure.data.dist
                              ELSE "unknown subsurface profile: "
                                       \o Head(stack).closure.data.profile)
                 /\ cc'.m_num_closures = cc.m_num_closures
                 /\ cc'.m_num_bytes = cc.m_num_bytes
                 /\ cc'.m_num_iors = cc.m_num_iors
                 /\ cc'.m_iors = cc.m_iors
                 /\ cc' = cc]_vars
    /\ [](\A dist \in { "blinn", "" } :
            /\ GlassClosure_convert_closure(
                   cc, OriginalShadingBasis,
                   GlassLeaf(White, dist, <<3, 2>>).data, White)
                 = { Threw(cc, "invalid microfacet distribution function: " \o dist) }
            /\ GlossyClosure_convert_closure(
                   cc, OriginalShadingBasis,
                   GlossyLeaf(White, dist, <<3, 2>>).data, White)
                 = { Threw(cc, "invalid microfacet distribution function: " \o dist) })

\* A glass leaf was converted, then a metal leaf of distribution "blinn"
\* made the constructor throw: the composite holds the glass entry and its
\* ior only.
C20_Witness ==
    /\ phase = "failed"
    /\ kind = "surface"
    /\ ci = Add(GlassLeaf(White, "ggx", <<3, 2>>), MetalLeaf(White, "blinn"))
    /\ error = "invalid microfacet distribution function: blinn"
    /\ cc.m_num_closures = 1
    /\ cc.m_num_iors = 1

\* A subsurface leaf of profile "gaussian" made the constructor throw after
\* one entry was added.
C20_WitnessSubsurface ==
    /\ phase = "failed"
    /\ kind = "subsurface"
    /\ error = "unknown subsurface profile: gaussian"
    /\ cc.m_num_closures = 1

\* The step is a call of choose_closure(sampling_context).
SampledStep ==
    /\ phase = "ready"
    /\ ret'.op = "choose_closure_sampling_context"

\* C21 (as amended): choose_closure(sampling_context) on a composite of two
\* or more entries draws exactly one scalar u from the sampling context and
\* returns the index choose_closure(u) returns; on a composite of a single
\* entry it returns index 0, which choose_closure(u) returns for every u,
\* and draws nothing: the sampling context is left where it was.
C21_SampledChoiceDrawsUnlessSingle ==
    [][SampledStep
          => IF cc.m_num_closures = 1
             THEN /\ sampling_context' = sampling_context
                  /\ ret'.index = 0
                  /\ \A u \in USamples : choose_closure(cc, u) = 0
             ELSE /\ sampling_context' = sampling_context + 1
                  /\ ret'.index = choose_closure(cc, ret'.w)]_vars

\* C21 as stated: every call on a composite with an entry draws exactly
\* one scalar.
C21_SampledChoiceAlwaysDraws ==
    [][SampledStep
          => /\ sampling_context' = sampling_context + 1
             /\ ret'.index = choose_closure(cc, ret'.w)]_vars

\* A call on a composite of one entry returned with nothing drawn.
C21_Witness ==
    /\ phase = "ready"
    /\ ret.op = "choose_closure_sampling_context"
    /\ cc.m_num_closures = 1
    /\ ret.index = 0
    /\ sampling_context = 0

\* Two calls on a composite of two entries drew two scalars.
C21_WitnessTwoEntries ==
    /\ phase = "ready"
    /\ ret.op = "choose_closure_sampling_context"
    /\ cc.m_num_closures = 2
    /\ ret.index = 1
    /\ sampling_context = 2

\* The step is the tail of a constructor, which runs compute_cdf.
ConstructedStep == phase = "walk" /\ phase' = "ready"

\* C22: compute_cdf, run by each constructor after its walk, changes
\* nothing of a composite without entries; gives the pdf weight 1 and the
\* cdf 1 to the entry of a composite of one, whatever its raw weight; and,
\* of n >= 2 entries of raw weights w, makes the pdf weights w_i / sum(w)
\* and the cdf (w_0 + ... + w_i) / sum(w) below the last entry and 1 at the
\* last.  It changes no weight color, basis, closure type or record, no
\* count, and no slot past the entries.
C22_ComputeCdfIsNormalization ==
    [][ConstructedStep
          => LET n == cc.m_num_closures
                 w == cc.m_pdf_weights
                 total == RSum(w, n)
             IN  /\ n = 0 =>
                        cc'.m_pdf_weights = cc.m_pdf_weights /\ cc'.m_cdf = cc.m_cdf
                 /\ n = 1 => cc'.m_pdf_weights[0] = ROne /\ cc'.m_cdf[0] = ROne
                 /\ n >= 2 =>
                        /\ RLt(RZero, total)
                        /\ \A i \in 0..(n - 1) :
                               cc'.m_pdf_weights[i] = RDiv(w[i], total)
                        /\ \A i \in 0..(n - 2) :
                               cc'.m_cdf[i] = RDiv(RSum(w, i + 1), total)
                        /\ cc'.m_cdf[n - 1] = ROne
                 /\ \A i \in Slots :
                        i >= n => /\ cc'.m_pdf_weights[i] = cc.m_pdf_weights[i]
                                  /\ cc'.m_cdf[i] = cc.m_cdf[i]
                 /\ cc'.m_num_closures = n
                 /\ cc'.m_num_bytes = cc.m_num_bytes
                 /\ cc'.m_weights = cc.m_weights
                 /\ cc'.m_bases = cc.m_bases
                 /\ cc'.m_closure_types = cc.m_closure_types
                 /\ cc'.m_input_values = cc.m_input_values
                 /\ cc'.m_values = cc.m_values]_vars

\* Two subsurface entries of raw weights 1 and 0.5: pdf weights 2/3 and
\* 1/3, cdf 2/3 and 1.
C22_Witness ==
    /\ phase = "ready"
    /\ kind = "subsurface"
    /\ ci = Add(SubsurfaceLeaf(White, "standard_dipole"),
                Mul(HalfWhite, SubsurfaceLeaf(White, "standard_dipole")))
    /\ cc.m_pdf_weights = (0 :> <<2, 3>>) @@ (1 :> <<1, 3>>)
    /\ cc.m_cdf = (0 :> <<2, 3>>) @@ (1 :> ROne)

\* One emission entry of raw weight 2: pdf weight 1 and cdf 1.
C22_WitnessSingle ==
    /\ phase = "ready"
    /\ ci = EmissionLeaf(Red2)
    /\ cc.m_num_closures = 1
    /\ cc.m_pdf_weights[0] = ROne
    /\ cc.m_cdf[0] = ROne

\* The first pool byte past the record of entry i, rounded up to the
\* alignment.
AlignedEnd(c, i) ==
    align(c.m_input_values[i] + SizeOfInputValues(c.m_closure_types[i]),
          InputValuesAlignment)

\* C24: a composite never holds more than MaxClosureEntries entries; the
\* record of every entry starts at a pool offset that is a multiple of
\* InputValuesAlignment; the record of an entry starts at or after the
\* aligned end of the record of the entry before it, and m_num_bytes is at
\* or after the aligned end of the last; the record of an entry stays where
\* it was put and no entry is taken away.
C24_PoolLayout ==
    /\ [](/\ cc.m_num_closures <= MaxClosureEntries
          /\ \A i \in Entries(cc) :
                /\ cc.m_input_values[i] >= 0
                /\ cc.m_input_values[i] % InputValuesAlignment = 0
                /\ i + 1 \in Entries(cc) =>
                       cc.m_input_values[i + 1] >= AlignedEnd(cc, i)
                /\ cc.m_num_bytes >= AlignedEnd(cc, i))
    /\ [][/\ cc'.m_num_closures >= cc.m_num_closures
          /\ \A i \in Entries(cc) :
                /\ cc'.m_input_values[i] = cc.m_input_values[i]
                /\ cc'.m_closure_types[i] = cc.m_closure_types[i]]_vars

\* Two subsurface records of 44 bytes each: the second starts at offset 48
\* and the pool is used up to byte 96.
C24_Witness ==
    /\ kind = "subsurface"
    /\ cc.m_num_closures = 2
    /\ SizeOfInputValues(cc.m_closure_types[0]) = 44
    /\ cc.m_input_values[0] = 0
    /\ cc.m_input_values[1] = 48
    /\ cc.m_num_bytes = 96

GlassEntries(c) ==
    { i \in Entries(c) : c.m_closure_types[i] \in { GlassGGXID, GlassBeckmannID } }

SurfaceLayerCall ==
    /\ kind = "surface"
    /\ LeafCall
    /\ Head(stack).closure.id = AlSurfaceLayerID

\* The surface walker on a layered leaf: the substrate is not walked; a
\* leaf of positive luminance becomes one entry of the layered id when the
\* composite has room, any other leaf is skipped.
SurfaceKeepsLayer ==
    LET e == ColorMul(Head(stack).weight, Head(stack).closure.w)
        n == cc.m_num_closures
    IN  /\ stack' \in { Tail(stack), <<>> }
        /\ ~HasPositiveLuminance(e) => SkipStep
        /\ (/\ HasPositiveLuminance(e)
            /\ ~HasNoRoom(cc)
            /\ cc.m_num_bytes + SizeOfInputValues(AlSurfaceLayerID) <= MaxPoolSize)
               => /\ phase' = "walk"
                  /\ stack' = Tail(stack)
                  /\ cc'.m_num_closures = n + 1
                  /\ cc'.m_closure_types[n] = AlSurfaceLayerID
                  /\ cc'.m_weights[n] = e
                  /\ cc'.m_values[n].m_substrate = Head(stack).closure.data.substrate

\* No entry of a constructed subsurface or emission composite has an id of
\* the layered range; the surface composite of a layered leaf holds that
\* leaf as its one entry.
LayeredEntries ==
    /\ (phase = "ready" /\ kind \in { "subsurface", "emission" })
           => \A i \in Entries(cc) : cc.m_closure_types[i] < FirstLayeredClosure
    /\ (phase = "ready" /\ kind = "surface" /\ ci.type = "COMPONENT"
            /\ ci.id = AlSurfaceLayerID)
           => /\ cc.m_num_closures = 1
              /\ cc.m_closure_types[0] = AlSurfaceLayerID
              /\ cc.m_weights[0] = ci.w

\* C28 (as amended): in the surface composite an as_alsurface_layer leaf of
\* positive luminance becomes one entry with the layered closure id and its
\* substrate is not walked, so no leaf of the substrate becomes an entry of
\* that composite.  The subsurface and emission walkers never store the
\* layered leaf; the subsurface walker always walks its substrate, the
\* emission walker only when the largest channel of the running weight
\* times the leaf's weight is positive.
C28_SurfaceKeepsLayeredLeaf ==
    /\ []LayeredEntries
    /\ [][SurfaceLayerCall => SurfaceKeepsLayer]_vars
    /\ [][(kind = "subsurface" /\ LayeredLeafCall) => UnwrapStep]_vars
    /\ [][(kind = "emission" /\ LayeredLeafCall)
              => /\ cc' = cc
                 /\ IF HasPositiveMaxComponent(ColorMul(Head(stack).weight,
                                                        Head(stack).closure.w))
                    THEN UnwrapStep ELSE SkipStep]_vars

\* C28 as stated: the subsurface and the emission walker always walk the
\* substrate of a layered leaf.
C28_OthersAlwaysDescend ==
    /\ []LayeredEntries
    /\ [][SurfaceLayerCall => SurfaceKeepsLayer]_vars
    /\ [][(kind \in { "subsurface", "emission" } /\ LayeredLeafCall)
              => UnwrapStep]_vars

\* The surface composite of a layered leaf over a diffuse leaf: one entry,
\* the layered one.
C28_Witness ==
    /\ phase = "ready"
    /\ kind = "surface"
    /\ ci = LayerLeaf(White, DiffuseLeaf(White))
    /\ cc.m_num_closures = 1
    /\ cc.m_closure_types[0] = AlSurfaceLayerID
    /\ cc.m_values[0].m_substrate = DiffuseLeaf(White)

\* The closure types of the entries of a composite, in index order.
StoredTypes(c) == [i \in 1 .. c.m_num_closures |-> c.m_closure_types[i - 1]]

\* A step of the constructor keeps every entry at its index, with its type,
\* weight, basis and record; until compute_cdf runs the raw pdf weight is
\* kept too, and a step adds at most one entry, at the end.
EntriesKeepIndex ==
    /\ cc'.m_num_closures \in { cc.m_num_closures, cc.m_num_closures + 1 }
    /\ \A i \in Entries(cc) :
          /\ cc'.m_closure_types[i] = cc.m_closure_types[i]
          /\ cc'.m_weights[i] = cc.m_weights[i]
          /\ cc'.m_bases[i] = cc.m_bases[i]
          /\ cc'.m_values[i] = cc.m_values[i]
          /\ phase' # "ready" => cc'.m_pdf_weights[i] = cc.m_pdf_weights[i]

\* The walker on an ADD node: nothing is stored, the left subtree is
\* walked next and the right subtree after it, both with the running
\* weight.
AddNodeStep ==
    LET f == Head(stack)
    IN  /\ cc' = cc
        /\ stack' = <<Frame(f.closure.closureA, f.weight),
                      Frame(f.closure.closureB, f.weight)>> \o Tail(stack)

\* C29: the entries of a composite are stored in the depth-first,
\* left-before-right order of the leaves the walker accepts: the composite
\* of an ADD node holds the entries of its left subtree first, then those
\* of its right subtree; an entry never changes its index, and compute_cdf
\* keeps the order.
C29_EntriesInWalkOrder ==
    /\ []((phase = "ready" /\ ci.type = "ADD" /\ IsPlainTree(kind, ci))
              => LET left == ConvertedWeights(kind, ci.closureA)
                     right == ConvertedWeights(kind, ci.closureB)
                 IN  /\ cc.m_num_closures = Len(left) + Len(right)
                     /\ \A i \in Entries(cc) :
                           cc.m_weights[i] =
                               IF i < Len(left) THEN left[i + 1]
                               ELSE right[i + 1 - Len(left)])
    /\ [][phase = "walk" => EntriesKeepIndex]_vars
    /\ [][(phase = "walk" /\ stack # <<>> /\ Head(stack).closure.type = "ADD")
              => AddNodeStep]_vars
    /\ [][ConstructedStep
              => /\ StoredTypes(cc') = StoredTypes(cc)
                 /\ StoredWeights(cc') = StoredWeights(cc)]_vars

\* A subsurface composite of a leaf of weight 1 on the left and a leaf of
\* weight 1/2 on the right: the left leaf's entry is entry 0.
C29_Witness ==
    /\ phase = "ready"
    /\ kind = "subsurface"
    /\ ci = Add(SubsurfaceLeaf(White, "standard_dipole"),
                Mul(HalfWhite, SubsurfaceLeaf(White, "standard_dipole")))
    /\ cc.m_num_closures = 2
    /\ cc.m_weights[0] = White
    /\ cc.m_weights[1] = HalfWhite
    /\ RLt(cc.m_pdf_weights[1], cc.m_pdf_weights[0])

\* The ids of the closures that are stored under the id of a scattering
\* model of another name.
AliasedIds == { DiffuseID, PhongID, ReflectionID, GlassID, GlossyID, MetalID }

\* The id of the scattering model the entry of a surface leaf is stored
\* under.
StoredId(leaf) ==
    CASE leaf.id = DiffuseID -> OrenNayarID
      [] leaf.id = PhongID -> AshikhminShirleyID
      [] leaf.id = ReflectionID -> GlossyBeckmannID
      [] leaf.id = GlassID ->
             IF leaf.data.dist = "ggx" THEN GlassGGXID ELSE GlassBeckmannID
      [] leaf.id = GlossyID ->
             IF leaf.data.dist = "ggx" THEN GlossyGGXID ELSE GlossyBeckmannID
      [] leaf.id = MetalID ->
             IF leaf.data.dist = "ggx" THEN MetalGGXID ELSE MetalBeckmannID
      [] OTHER -> leaf.id

PhongLeaf == Component(PhongID, White, [N |-> Nz])
ReflectionLeaf == Component(ReflectionID, White, [N |-> Nz, ior |-> <<3, 2>>])

\* Every entry a dispatch of the leaf on the composite c adds is the next
\* entry of c and has the leaf's stored id.
DispatchStoresId(c, leaf) ==
    \A o \in Dispatch(g_closure_convert_funs, leaf.id, c,
                      OriginalShadingBasis, leaf.data, leaf.w) :
        o.cc.m_num_closures # c.m_num_closures
            => /\ o.cc.m_num_closures = c.m_num_closures + 1
               /\ o.cc.m_closure_types[c.m_num_closures] = StoredId(leaf)

C30_WitnessPhongReflection ==
    /\ kind = "surface"
    /\ phase = "walk"
    /\ cc.m_num_closures = 1
    /\ \E o \in Dispatch(g_closure_convert_funs, PhongID, cc,
                         OriginalShadingBasis, PhongLeaf.data, White) :
          o.cc.m_closure_types[1] = AshikhminShirleyID /\ o.cc.m_num_closures = 2
    /\ \E o \in Dispatch(g_closure_convert_funs, ReflectionID, cc,
                         OriginalShadingBasis, ReflectionLeaf.data, White) :
          o.cc.m_closure_types[1] = GlossyBeckmannID /\ o.cc.m_num_closures = 2

\* The slots the register_closure calls before the i-th have written.
InstalledBefore(i) ==
    { s \in DOMAIN RegisteredConversions :
        \E j \in 1 .. (i - 1) : RegistrationOrder[j] = RegisteredConversions[s] }

\* The table at each point of register_closures: never written before the
\* first call, the final table between calls, and during a call the no-op
\* in every slot the loop has passed and no conversion installed yet.
TableDuringRegistration ==
    /\ (registration.pc = "idle" /\ registration.calls = 0)
           => \A s \in TableSlots : g_closure_convert_funs[s] = "null"
    /\ (registration.pc = "idle" /\ registration.calls > 0)
           => g_closure_convert_funs = register_closures_table
    /\ registration.pc = "clear"
           => \A s \in TableSlots :
                 /\ s < registration.i => g_closure_convert_funs[s] = "nop"
                 /\ s >= registration.i =>
                        g_closure_convert_funs[s] =
                            IF registration.calls = 0 THEN "null"
                            ELSE register_closures_table[s]
    /\ registration.pc = "install"
           => \A s \in TableSlots :
                 g_closure_convert_funs[s] =
                     IF s \in InstalledBefore(registration.i)
                     THEN RegisteredConversions[s] ELSE "nop"

\* The surface walker's step dispatches a leaf of a closure kind that has a
\* conversion in the final table.
RegisteredLeafDispatch ==
    /\ kind = "surface"
    /\ LeafCall
    /\ Head(stack).closure.id \in DOMAIN RegisteredConversions
    /\ HasPositiveLuminance(ColorMul(Head(stack).weight, Head(stack).closure.w))
    /\ stack' # stack

\* C25: register_closures writes the no-op into every slot and then
\* installs the conversions one closure kind at a time.  The dispatch of a
\* leaf whose kind has a conversion in the final table drops the leaf
\* without an error only when it reads the no-op, which such a slot holds
\* only while register_closures runs; a dispatch after register_closures
\* returned reads the final table; before the first registration the slots
\* are null, not the no-op, and a dispatch does not return.
C25_RegistrationNotAtomic ==
    /\ []TableDuringRegistration
    /\ [][(RegisteredLeafDispatch /\ cc' = cc /\ phase' = "walk")
              => /\ g_closure_convert_funs[Head(stack).closure.id] = "nop"
                 /\ registration.pc # "idle"]_vars
    /\ [][(RegisteredLeafDispatch /\ registration.pc = "idle"
               /\ registration.calls > 0)
              => /\ g_closure_convert_funs[Head(stack).closure.id] =
                        RegisteredConversions[Head(stack).closure.id]
                 /\ cc' # cc \/ phase' # "walk"]_vars
    /\ [][(RegisteredLeafDispatch /\ registration.pc = "idle"
               /\ registration.calls = 0)
              => /\ g_closure_convert_funs[Head(stack).closure.id] = "null"
                 /\ phase' = "aborted"]_vars

\* A diffuse leaf of weight 1 was dropped: the composite was built while a
\* second register_closures ran, and is empty.
C25_Witness ==
    /\ phase = "ready"
    /\ kind = "surface"
    /\ ci = DiffuseLeaf(White)
    /\ cc.m_num_closures = 0
    /\ error = ""
    /\ registration.calls = 1
    /\ registration.pc = "install"

\* A walk before the first registration ran into a null slot.
C25_WitnessNull ==
    /\ phase = "aborted"
    /\ kind = "surface"
    /\ registration = NotRegistering
    /\ g_closure_convert_funs[DiffuseID] = "null"

\* The ends of a constructor that runs alone from the pending calls stk on
\* the composite c: the composite, how the constructor ended and the
\* message of its exception.
RECURSIVE RunWalk(_, _, _, _)
RunWalk(k, c, stk, b) ==
    IF stk = <<>>
    THEN { [phase |-> "ready",
            cc |-> IF k = "surface" THEN SurfaceFinish(c) ELSE compute_cdf(c),
            error |-> ""] }
    ELSE UNION { UNION {
             IF o.exc = "assert" /\ b # "any" THEN {}
             ELSE IF o.exc = "none"
             THEN RunWalk(k, o.cc, st.push \o Tail(stk),
                          IF o.passed THEN "release" ELSE b)
             ELSE { [phase |-> IF o.exc = "throw" THEN "failed" ELSE "aborted",
                     cc |-> o.cc, error |-> o.msg] }
             : o \in st.outcomes }
           : st \in ProcessFrame(k, register_closures_table, c, Head(stk)) }

\* The ends of the constructor of the variant k on the tree t when no other
\* thread runs.
RunAlone(k, t) ==
    UNION { RunWalk(k, NewComposite(junk), <<Frame(t, White)>>, "any")
            : junk \in Junk }

Ended == { "ready", "failed", "aborted" }

\* C23: once register_closures has returned no step of a constructor or of
\* choose_closure writes the dispatch table; a step of one thread's
\* constructor leaves the other thread's composite, tree and pending calls
\* as they are; and whatever the interleaving, each thread's constructor
\* ends with a composite and an outcome that it has when it runs alone on
\* the same tree.
C23_ThreadsBuildAlone ==
    /\ [][g_closure_convert_funs = register_closures_table
              => g_closure_convert_funs' = g_closure_convert_funs]_vars
    /\ [][worker' # worker
              => UNCHANGED <<phase, kind, ci, stack, cc, error>>]_vars
    /\ [][<<phase, kind, ci, stack, cc, error>>' # <<phase, kind, ci, stack, cc, error>>
              => worker' = worker]_vars
    /\ [](phase \in Ended
              => [phase |-> phase, cc |-> cc, error |-> error]
                     \in RunAlone(kind, ci))
    /\ [](worker.phase \in Ended
              => [phase |-> worker.phase, cc |-> worker.cc,
                  error |-> worker.error] \in RunAlone(worker.kind, worker.ci))

\* Both constructors are inside their walks, each with one entry stored
\* and one leaf to go.
C23_WitnessInterleaved ==
    /\ phase = "walk"
    /\ worker.phase = "walk"
    /\ cc.m_num_closures = 1
    /\ worker.cc.m_num_closures = 1
    /\ Len(stack) = 1
    /\ Len(worker.stack) = 1

\* Both threads ended: a surface composite of two entries in the first, an
\* emission composite of two entries in the second.
C23_Witness ==
    /\ phase = "ready"
    /\ worker.phase = "ready"
    /\ kind = "surface"
    /\ worker.kind = "emission"
    /\ cc.m_num_closures = 2
    /\ worker.cc.m_num_closures = 2
    /\ cc.m_closure_types[1] = GlassBeckmannID
    /\ worker.cc.m_closure_types[1] = EmissionID

=============================================================================
